---- MODULE Spec2Model ----
(***************************************************************************)
(* Model of the emporte extraction-to-calendar pipeline: the BullMQ job    *)
(* queue and its worker (processAiJob), the Redis preview store with its   *)
(* expiry, the preview routes that read and delete the stored preview,     *)
(* and the confirm handler with formatEventsForGoogle and                  *)
(* createCalendarEvents.                                                   *)
(***************************************************************************)
EXTENDS Integers, Sequences, FiniteSets, TLC

(***************************************************************************)
(* Bounds of the model.                                                    *)
(***************************************************************************)
\* most files one upload puts into one job
MaxFiles == 2
\* seconds of wall-clock time that pass in one Tick
TickSec == 900

\* most descriptors one call of createCalendarEvents is given
MaxBatch == 6
\* most events of the schedules formatEventsForGoogle is given in every
\* combination
MaxEvents == 3
\* the course codes of the one long schedule it is given
MaxCourses == 23

\* the upload requests whose jobs are followed
JobIds == {"j1", "j2"}
\* sessions that upload, poll and cancel
Sessions == {"A", "B"}

(***************************************************************************)
(* Program constants.                                                      *)
(***************************************************************************)
\* redisClient.set(redisKey, ..., 'EX', 1800)
PREVIEW_TTL == 1800
\* process.env.JOB_DEFAULT_ATTEMPTS || '3'
JOB_DEFAULT_ATTEMPTS == 3
\* process.env.JOB_BACKOFF_DELAY_MS || '5000'
JOB_BACKOFF_DELAY_MS == 5000
\* process.env.WORKER_CONCURRENCY || '3'
WORKER_CONCURRENCY == 3

\* process.env.GOOGLE_API_CONCURRENCY || '5'
GOOGLE_API_CONCURRENCY == 5

(***************************************************************************)
(* JSON values.  A string is a sequence of one-character strings, so that  *)
(* the regular expressions of the code can be matched against it.  The     *)
(* JSON values null, undefined (an absent property) and a number are the   *)
(* three marks below; no string equals one of them.  The days of an event  *)
(* and the events of a schedule are always arrays here.                    *)
(***************************************************************************)
Null == <<"<null>">>
Undef == <<"<undefined>">>
JNum == <<"<number>">>
NonStrings == {Null, Undef, JNum}

Digits == {"0", "1", "2", "3", "4", "5", "6", "7", "8", "9"}

\* typeof v === 'string', z.string()
IsStr(v) == v \notin NonStrings

\* z.string().nullable()
IsNullableStr(v) == v = Null \/ IsStr(v)

\* JavaScript truthiness of a JSON scalar: null, undefined and "" are falsy
Truthy(v) == v \notin {Null, Undef, <<>>}

\* /^\d{4}-\d{2}-\d{2}$/.test(s), s a string
DateRe(s) ==
    /\ Len(s) = 10
    /\ \A k \in {1, 2, 3, 4, 6, 7, 9, 10} : s[k] \in Digits
    /\ s[5] = "-"
    /\ s[8] = "-"

\* s[p .. ] starts with AM or PM in either case
AmPmAt(s, p) ==
    /\ p + 1 <= Len(s)
    /\ s[p] \in {"A", "a", "P", "p"}
    /\ s[p + 1] \in {"M", "m"}

\* /\d{1,2}:\d{2}\s*(AM|PM)/i matches somewhere in s: the pattern is not
\* anchored, and one digit before the colon is enough for \d{1,2}
TimeRe(s) ==
    \E c \in 2..Len(s) :
        /\ s[c] = ":"
        /\ s[c - 1] \in Digits
        /\ c + 2 <= Len(s)
        /\ s[c + 1] \in Digits
        /\ s[c + 2] \in Digits
        /\ \E p \in (c + 3)..Len(s) :
               /\ \A k \in (c + 3)..(p - 1) : s[k] = " "
               /\ AmPmAt(s, p)

\* scheduleEventSchema.parse(event) does not throw
scheduleEventSchema(e) ==
    /\ IsStr(e.courseCode)
    /\ IsNullableStr(e.courseName)
    /\ IsNullableStr(e.sectionDetails)
    /\ Len(e.days) >= 1
    /\ \A k \in 1..Len(e.days) : IsStr(e.days[k])
    /\ IsStr(e.startTime) /\ TimeRe(e.startTime)
    /\ IsStr(e.endTime) /\ TimeRe(e.endTime)
    /\ IsNullableStr(e.location)

\* dateStringSchema.nullable()
dateStringSchema(d) == d = Null \/ (IsStr(d) /\ DateRe(d))

\* what z.object(...).parse returns for an event: unknown keys are stripped
StripEvent(e) == [e EXCEPT !.extra = Undef]

\* scheduleDataSchema.parse(combined) does not throw
scheduleDataSchema(sd) ==
    /\ dateStringSchema(sd.termStartDate)
    /\ dateStringSchema(sd.termEndDate)
    /\ \A k \in 1..Len(sd.scheduleEvents) : scheduleEventSchema(sd.scheduleEvents[k])

\* the value scheduleDataSchema.parse returns
ParsedScheduleData(sd) ==
    [termStartDate |-> sd.termStartDate,
     termEndDate |-> sd.termEndDate,
     scheduleEvents |-> [k \in 1..Len(sd.scheduleEvents) |-> StripEvent(sd.scheduleEvents[k])]]

processingErrorSchema(pe) == IsStr(pe.filename) /\ IsStr(pe.error)

processingWarningSchema(w) ==
    /\ w.filename = Undef \/ IsStr(w.filename)
    /\ IsStr(w.message)
    /\ w.field = Undef \/ IsStr(w.field)

\* previewResultSchema.parse / safeParse succeeds on a document
previewResultSchema(doc) ==
    /\ scheduleDataSchema(doc.scheduleData)
    /\ \A k \in 1..Len(doc.processingWarnings) : processingWarningSchema(doc.processingWarnings[k])
    /\ \A k \in 1..Len(doc.processingErrors) : processingErrorSchema(doc.processingErrors[k])

\* validation.data: what previewResultSchema.safeParse returns for a
\* document that passes
ParsedPreviewResult(doc) == [doc EXCEPT !.scheduleData = ParsedScheduleData(@)]

(***************************************************************************)
(* The values the model draws its inputs from.                             *)
(***************************************************************************)
\* a string whose characters no code looks at (a file name, a message)
S(word) == <<word>>

T1000AM == <<"1", "0", ":", "0", "0", " ", "A", "M">>
T1100AM == <<"1", "1", ":", "0", "0", " ", "A", "M">>
D20240902 == <<"2", "0", "2", "4", "-", "0", "9", "-", "0", "2">>
D20241210 == <<"2", "0", "2", "4", "-", "1", "2", "-", "1", "0">>
BadDate == <<"b", "a", "d", "-", "d", "a", "t", "e">>

\* a valid event that carries a key the schema does not know
EvCS101 ==
    [courseCode |-> S("CS101"), courseName |-> Null, sectionDetails |-> Null,
     days |-> <<S("Monday")>>, startTime |-> T1000AM, endTime |-> T1100AM,
     location |-> Null, extra |-> S("instructor")]
\* the invalid event of the worker's first test: no days
EvNoDays ==
    [courseCode |-> S("INVALID"), courseName |-> Null, sectionDetails |-> Null,
     days |-> <<>>, startTime |-> T1000AM, endTime |-> T1100AM,
     location |-> Null, extra |-> Undef]
EvMATH200 ==
    [courseCode |-> S("MATH200"), courseName |-> S("Calculus"), sectionDetails |-> Null,
     days |-> <<S("Tuesday"), S("Thursday")>>, startTime |-> T1000AM, endTime |-> T1100AM,
     location |-> Null, extra |-> Undef]
\* an event whose courseCode is a number (the preview route's test)
EvCode123 == [EvNoDays EXCEPT !.courseCode = JNum]

\* What extractScheduleFromImage can resolve with: any parsed JSON.  truthy
\* says the value is not null, eventsIsArray that Array.isArray holds of its
\* scheduleEvents.
RetA ==
    [truthy |-> TRUE, eventsIsArray |-> TRUE, termStartDate |-> D20240902,
     termEndDate |-> Null, scheduleEvents |-> <<EvCS101, EvNoDays>>]
RetB ==
    [truthy |-> TRUE, eventsIsArray |-> TRUE, termStartDate |-> BadDate,
     termEndDate |-> D20241210, scheduleEvents |-> <<EvMATH200>>]
RetNoArray ==
    [truthy |-> TRUE, eventsIsArray |-> FALSE, termStartDate |-> D20240902,
     termEndDate |-> D20241210, scheduleEvents |-> <<>>]
\* nothing was returned: the read or the extraction threw
NoRet ==
    [truthy |-> FALSE, eventsIsArray |-> FALSE, termStartDate |-> Null,
     termEndDate |-> Null, scheduleEvents |-> <<>>]
\* an event that ends before it starts
EvLate == [EvMATH200 EXCEPT !.courseCode = S("CHEM1"), !.startTime = T1100AM, !.endTime = T1000AM]
\* a file that names both term dates, other ones, and holds that event
RetC ==
    [truthy |-> TRUE, eventsIsArray |-> TRUE, termStartDate |-> D20241210,
     termEndDate |-> D20240902, scheduleEvents |-> <<EvLate>>]
AiReturns == {RetA, RetB, RetC, RetNoArray}

\* messages of the errors readFile and extractScheduleFromImage reject with
ReadErrors == {S("ENOENT")}
AiErrors == {S("AI processing failed")}

\* originalFilenames of an upload of n files; dup: every part has one name
UploadNames(n, dup) ==
    [i \in 1..n |-> IF dup \/ i = 1 THEN S("img1.jpg") ELSE S("sched2.png")]

\* tempFilePaths: one fresh path per saved file
TempPath(j, i) == <<j, i>>

(***************************************************************************)
(* State.                                                                  *)
(***************************************************************************)
VARIABLES
    fs,            \* the temp files that exist: a set of paths
    jobState,      \* BullMQ state of each job
    jobData,       \* AiJobData of each job
    attemptsMade,  \* how many times the worker has started each job
    backoff,       \* delay (ms) of the retry each job is waiting for
    run,           \* the locals of the running or last call of processAiJob
    trace,         \* what that call did: file operations, outcomes, result
    store,         \* Redis: the entry under preview:<sessionId>
    since,         \* seconds since the last successful preview write
    lastWriter,    \* the job whose write of the session's entry succeeded last
    getPc,         \* where the GET /api/preview request of a session stands
    resp,          \* the HTTP response sent by the step just taken, if any
    confirm,       \* the POST /api/calendar/create request that is followed
    submit,        \* the call of createCalendarEvents that is followed
    fmt,           \* the call of formatEventsForGoogle that is followed
    up,            \* the POST /api/upload request that is followed, and the queue it adds to
    page           \* the preview page of the client and its polling

vars == <<fs, jobState, jobData, attemptsMade, backoff, run, trace, store,
          since, lastWriter, getPc, resp, confirm, submit, fmt, up, page>>

EmptySchedule == [termStartDate |-> Null, termEndDate |-> Null, scheduleEvents |-> <<>>]
EmptyDoc == [scheduleData |-> EmptySchedule, processingWarnings |-> <<>>, processingErrors |-> <<>>]

\* JSON.stringify(value): the stored string, kept as the document it encodes
JSONstringify(doc) == [json |-> TRUE, doc |-> doc]
\* a stored string that JSON.parse rejects
Garbage == [json |-> FALSE, doc |-> EmptyDoc]

Absent == [present |-> FALSE, value |-> Garbage, ttl |-> 0]

NoData == [sessionId |-> "", tempFilePaths |-> <<>>, originalFilenames |-> <<>>]

\* no response was sent by the step.  Beside the response, resp notes what
\* the request met: a rejected store read, a stored value that did not parse
\* or validate, a delete that took effect.
NoResp ==
    [op |-> "none", session |-> "", status |-> 0, hasPreview |-> FALSE,
     previewResult |-> EmptyDoc, readFailed |-> FALSE, corrupt |-> FALSE,
     delOk |-> FALSE]

\* the locals of processAiJob as lines 33-38 initialise them
InitRun ==
    [pc |-> "idle", i |-> 1,
     allScheduleEvents |-> <<>>,
     termStartDate |-> Null,
     termEndDate |-> Null,
     filesProcessedSuccessfully |-> 0,
     fileProcessingErrors |-> <<>>,
     processingWarnings |-> <<>>,
     payload |-> Garbage]

\* what the call has done so far: the file-system and AI calls in the order
\* they were made, how the try block of each file ended (and what the AI
\* returned), whether an unlink failed, the store writes issued, whether
\* one was rejected, and how the call ended
InitTrace ==
    [ops |-> <<>>, files |-> <<>>, unlinkFailed |-> FALSE, sets |-> 0,
     setFailed |-> FALSE, result |-> "none"]

\* the reply of the confirm handler: reply.code(...).send({success, error,
\* message, details}); details is the list of validation issues, the number
\* of created series, or the whole creation result
NoReply ==
    [status |-> 0, success |-> FALSE, error |-> Undef, message |-> Undef,
     issues |-> <<>>, created |-> Undef,
     result |-> [successCount |-> 0, errors |-> <<>>], hasResult |-> FALSE]

\* no confirm request yet.  Once received: its session ("" without a valid
\* one) and body, the locals googleEvents and creationResult, how often
\* the formatter and the submitter were called, how many deletes of the
\* preview key were issued and what became of the last one, and the reply
NoConfirm ==
    [pc |-> "idle", session |-> "", body |-> <<>>, googleEvents |-> <<>>,
     creationResult |-> [successCount |-> 0, errors |-> <<>>],
     formatterCalls |-> 0, submitterCalls |-> 0, formatterThrew |-> Undef,
     delIssued |-> 0, del |-> "none", reply |-> NoReply]

\* no call of createCalendarEvents yet.  Once called: the descriptors it
\* was given, the limiter's concurrency, per descriptor the state of its
\* limited task (pending in the limiter's queue, inflight: insert called and
\* not settled, fulfilled, rejected), how often calendar.events.insert was
\* called for it, what that call rejected with and what its task threw, and
\* the value the call resolved with or the message it rejected with
NoSubmit ==
    [pc |-> "idle", events |-> <<>>, concurrency |-> 0, st |-> <<>>,
     calls |-> <<>>, outcome |-> <<>>, reason |-> <<>>,
     result |-> [successCount |-> 0, errors |-> <<>>], threw |-> Undef]

\* no call of formatEventsForGoogle yet.  Once called: its arguments, the
\* UTC offset of the server's local time (minutes east of UTC), the locals
\* termStart and untilDate (instants, in minutes since the epoch),
\* rruleEndDateUTC, courseColorMap (course code and colour, in insertion
\* order), availableColors, fallbackColorIndex and googleEvents, the number
\* of events the forEach has visited, and the error thrown
NoFormat ==
    [pc |-> "idle", scheduleData |-> EmptySchedule, userTimeZone |-> <<>>, offset |-> 0,
     termStart |-> 0, untilDate |-> 0, rruleEndDateUTC |-> <<>>,
     courseColorMap |-> <<>>, availableColors |-> <<>>, fallbackColorIndex |-> 0,
     googleEvents |-> <<>>, index |-> 0, threw |-> Undef]

\* no upload request yet.  Once one is made: its number, whether the
\* session carries a session id, the parts of its body and how many the
\* handler has taken, the handler's fileInfos (each with the state of its
\* savePromise), filesProcessedCount and tempFilesToClean, the paths
\* fsPromises.unlink was called for, the calls of aiProcessingQueue.add it
\* made, the jobs the queue has accepted (each with the request that added
\* it), the error thrown and the reply
NoUpload ==
    [pc |-> "idle", req |-> 0, hasSessionId |-> TRUE, parts |-> <<>>, index |-> 0,
     fileInfos |-> <<>>, filesProcessedCount |-> 0, tempFilesToClean |-> <<>>,
     unlinkCalls |-> {}, addCalls |-> 0, added |-> <<>>, threw |-> "", status |-> 0]

\* the preview page before it is mounted.  Once mounted: the milliseconds
\* since its effect ran, the state isLoading, fetchError and whether
\* scheduleData is set, the value of isLoading the callbacks of the effect
\* closed over, whether intervalRef and timeoutRef hold a timer, the calls
\* of fetchPreviewData started and those still awaiting their response,
\* the responses handled and the last of them, whether the timeout
\* callback has run, and whether the page navigated to /login
NoPage ==
    [pc |-> "unmounted", now |-> 0, isLoading |-> TRUE, fetchError |-> "",
     hasScheduleData |-> FALSE, closedOverIsLoading |-> TRUE,
     interval |-> FALSE, timeout |-> FALSE, polls |-> 0, inflight |-> 0,
     handled |-> 0, last |-> "none", timedOut |-> FALSE, navigated |-> FALSE]

Init ==
    /\ fs = {}
    /\ jobState = [j \in JobIds |-> "none"]
    /\ jobData = [j \in JobIds |-> NoData]
    /\ attemptsMade = [j \in JobIds |-> 0]
    /\ backoff = [j \in JobIds |-> 0]
    /\ run = [j \in JobIds |-> InitRun]
    /\ trace = [j \in JobIds |-> InitTrace]
    /\ store = [s \in Sessions |-> Absent]
    /\ since = [s \in Sessions |-> PREVIEW_TTL]
    /\ lastWriter = [s \in Sessions |-> "none"]
    /\ getPc = [s \in Sessions |-> "idle"]
    /\ resp = NoResp
    /\ confirm = NoConfirm
    /\ submit = NoSubmit
    /\ fmt = NoFormat
    /\ up = NoUpload
    /\ page = NoPage

(***************************************************************************)
(* The queue: the upload route adds one job per accepted request, BullMQ   *)
(* hands waiting jobs to the worker and retries rejected ones.             *)
(***************************************************************************)
\* fastify.aiProcessingQueue.add('process-images', jobData), after the
\* request's files were saved: an upload of a session in from, of at most
\* cap files
Enqueue(j, from, cap) ==
    /\ jobState[j] = "none"
    /\ \E s \in from, n \in 1..cap, dup \in BOOLEAN :
          /\ dup => n >= 2
          /\ jobData' = [jobData EXCEPT ![j] =
                 [sessionId |-> s,
                  tempFilePaths |-> [i \in 1..n |-> TempPath(j, i)],
                  originalFilenames |-> UploadNames(n, dup)]]
          /\ fs' = fs \cup {TempPath(j, i) : i \in 1..n}
    /\ jobState' = [jobState EXCEPT ![j] = "waiting"]
    /\ resp' = NoResp
    /\ UNCHANGED <<page, up, fmt, confirm, submit, attemptsMade, backoff, run, trace, store, since, lastWriter, getPc>>

ActiveCount == Cardinality({j \in JobIds : jobState[j] = "active"})

\* a worker whose retries find the job's files in place again
ActivateWithFilesKept(j) ==
    /\ jobState[j] = "waiting"
    /\ ActiveCount < WORKER_CONCURRENCY
    /\ jobState' = [jobState EXCEPT ![j] = "active"]
    /\ attemptsMade' = [attemptsMade EXCEPT ![j] = @ + 1]
    /\ run' = [run EXCEPT ![j] = [InitRun EXCEPT !.pc = IF Len(jobData[j].tempFilePaths) > 0 THEN "try" ELSE "assemble"]]
    /\ trace' = [trace EXCEPT ![j] = InitTrace]
    /\ backoff' = [backoff EXCEPT ![j] = 0]
    /\ resp' = NoResp
    /\ fs' = fs \cup {jobData[j].tempFilePaths[i] : i \in DOMAIN jobData[j].tempFilePaths}
    /\ UNCHANGED <<page, up, fmt, confirm, submit, jobData, store, since, lastWriter, getPc>>

\* the Worker takes a waiting job and calls processAiJob: lines 26-38
Activate(j) ==
    /\ jobState[j] = "waiting"
    /\ ActiveCount < WORKER_CONCURRENCY
    /\ jobState' = [jobState EXCEPT ![j] = "active"]
    /\ attemptsMade' = [attemptsMade EXCEPT ![j] = @ + 1]
    /\ run' = [run EXCEPT ![j] = [InitRun EXCEPT !.pc = IF Len(jobData[j].tempFilePaths) > 0 THEN "try" ELSE "assemble"]]
    /\ trace' = [trace EXCEPT ![j] = InitTrace]
    /\ backoff' = [backoff EXCEPT ![j] = 0]
    /\ resp' = NoResp
    /\ UNCHANGED <<page, up, fmt, confirm, submit, fs, jobData, store, since, lastWriter, getPc>>

RECURSIVE Pow2(_)
Pow2(n) == IF n <= 0 THEN 1 ELSE 2 * Pow2(n - 1)

\* backoff: { type: 'exponential', delay }: the delay before the retry that
\* follows the given number of attempts
BackoffDelay(made) == JOB_BACKOFF_DELAY_MS * Pow2(made - 1)

\* A variant of the queue without a limit of attempts.
AlwaysRetried(j) == "delayed"

\* the state BullMQ moves a job to when processAiJob rejects
StateAfterReject(j) ==
    IF attemptsMade[j] < JOB_DEFAULT_ATTEMPTS THEN "delayed" ELSE "failed"

DelayAfterReject(j) ==
    IF attemptsMade[j] < JOB_DEFAULT_ATTEMPTS THEN BackoffDelay(attemptsMade[j]) ELSE 0

\* the backoff delay of a rejected job has passed
Promote(j) ==
    /\ jobState[j] = "delayed"
    /\ jobState' = [jobState EXCEPT ![j] = "waiting"]
    /\ resp' = NoResp
    /\ UNCHANGED <<page, up, fmt, confirm, submit, fs, jobData, attemptsMade, backoff, run, trace, store, since, lastWriter, getPc>>

(***************************************************************************)
(* processAiJob.  One action per stretch of code between two awaits that   *)
(* another job or request can interleave with.                             *)
(***************************************************************************)
\* lines 124-127: the catch block records the file under its name
CatchFile(r, name, msg) ==
    [r EXCEPT !.fileProcessingErrors = Append(@, [filename |-> name, error |-> msg]),
              !.pc = "finally"]

UnusableMsg == S("AI result format invalid (missing or invalid scheduleEvents array)")
StartWarnMsg == S("Term start date from AI has invalid format (YYYY-MM-DD expected), ignoring value.")
EndWarnMsg == S("Term end date from AI has invalid format (YYYY-MM-DD expected), ignoring value.")

\* lines 67-84: the events of one file that pass scheduleEventSchema, as the
\* AI returned them
ValidatedEventsFromFile(ret) == SelectSeq(ret.scheduleEvents, scheduleEventSchema)

\* a merge in which the date of a later file replaces the one already set
DateConsideredAlways(current, candidate) == Truthy(candidate) /\ IsStr(candidate)

\* lines 86-115: the condition under which a term date of the file is looked at
DateConsidered(current, candidate) ==
    current = Null /\ Truthy(candidate) /\ IsStr(candidate)

\* a merge that keeps the events of the first file that has any
FoldFileKeepingFirstEvents(r, name, ret) ==
    [r EXCEPT
       !.allScheduleEvents = IF @ = <<>> THEN ValidatedEventsFromFile(ret) ELSE @,
       !.filesProcessedSuccessfully = @ + 1,
       !.pc = "finally"]

\* a merge that ignores a malformed term date without a warning
FoldFileWithoutWarnings(r, name, ret) ==
    [r EXCEPT
       !.allScheduleEvents = @ \o ValidatedEventsFromFile(ret),
       !.termStartDate =
           IF DateConsidered(@, ret.termStartDate) /\ DateRe(ret.termStartDate)
           THEN ret.termStartDate ELSE @,
       !.termEndDate =
           IF DateConsidered(@, ret.termEndDate) /\ DateRe(ret.termEndDate)
           THEN ret.termEndDate ELSE @,
       !.filesProcessedSuccessfully = @ + 1,
       !.pc = "finally"]

\* lines 66-123: fold what extractScheduleFromImage returned into the locals
FoldFile(r, name, ret) ==
    IF ret.truthy /\ ret.eventsIsArray
    THEN LET startSeen == DateConsidered(r.termStartDate, ret.termStartDate)
             endSeen == DateConsidered(r.termEndDate, ret.termEndDate)
             startWarn ==
                 IF startSeen /\ ~DateRe(ret.termStartDate)
                 THEN <<[filename |-> name, message |-> StartWarnMsg,
                         field |-> S("termStartDate"), value |-> ret.termStartDate]>>
                 ELSE <<>>
             endWarn ==
                 IF endSeen /\ ~DateRe(ret.termEndDate)
                 THEN <<[filename |-> name, message |-> EndWarnMsg,
                         field |-> S("termEndDate"), value |-> ret.termEndDate]>>
                 ELSE <<>>
         IN [r EXCEPT
               !.allScheduleEvents = @ \o ValidatedEventsFromFile(ret),
               !.termStartDate =
                   IF startSeen /\ DateRe(ret.termStartDate) THEN ret.termStartDate ELSE @,
               !.termEndDate =
                   IF endSeen /\ DateRe(ret.termEndDate) THEN ret.termEndDate ELSE @,
               !.processingWarnings = @ \o startWarn \o endWarn,
               !.filesProcessedSuccessfully = @ + 1,
               !.pc = "finally"]
    ELSE [r EXCEPT
               !.fileProcessingErrors = Append(@, [filename |-> name, error |-> UnusableMsg]),
               !.filesProcessedSuccessfully = @ + 1,
               !.pc = "finally"]

\* how the try block of a file ended, for the trace
KindOfReturn(ret) == IF ret.truthy /\ ret.eventsIsArray THEN "usable" ELSE "unusable"

\* lines 41-127: the try block of file i: readFile, extractScheduleFromImage,
\* fold; or the catch block when one of the two rejects
TryFile(j) ==
    /\ jobState[j] = "active"
    /\ run[j].pc = "try"
    /\ LET r == run[j]
           i == r.i
           path == jobData[j].tempFilePaths[i]
           name == jobData[j].originalFilenames[i]
       IN \/ \E msg \in ReadErrors :
                \* fs.readFile rejects: always when the file is gone
                /\ run' = [run EXCEPT ![j] = CatchFile(r, name, msg)]
                /\ trace' = [trace EXCEPT ![j].ops = Append(@, <<"read", i>>),
                                          ![j].files = Append(@, [kind |-> "threw", ret |-> NoRet])]
          \/ \E msg \in AiErrors :
                /\ path \in fs
                /\ run' = [run EXCEPT ![j] = CatchFile(r, name, msg)]
                /\ trace' = [trace EXCEPT ![j].ops = @ \o << <<"read", i>>, <<"extract", i>> >>,
                                          ![j].files = Append(@, [kind |-> "threw", ret |-> NoRet])]
          \/ \E ret \in AiReturns :
                /\ path \in fs
                /\ run' = [run EXCEPT ![j] = FoldFile(r, name, ret)]
                /\ trace' = [trace EXCEPT ![j].ops = @ \o << <<"read", i>>, <<"extract", i>> >>,
                                          ![j].files = Append(@, [kind |-> KindOfReturn(ret), ret |-> ret])]
    /\ resp' = NoResp
    /\ UNCHANGED <<page, up, fmt, confirm, submit, fs, jobState, jobData, attemptsMade, backoff, store, since, lastWriter, getPc>>

\* A variant of the cleanup without finally semantics: the unlink is the
\* last statement of the try block, so a file that threw is left behind.
UnlinkInTryBlock(j) ==
    /\ jobState[j] = "active"
    /\ run[j].pc = "finally"
    /\ LET i == run[j].i
           path == jobData[j].tempFilePaths[i]
           last == i >= Len(jobData[j].tempFilePaths)
           threw == trace[j].files[i].kind = "threw"
       IN /\ \E unlinked \in BOOLEAN :
                /\ unlinked => (path \in fs /\ ~threw)
                /\ fs' = IF unlinked THEN fs \ {path} ELSE fs
                /\ trace' = [trace EXCEPT
                                ![j].ops = IF threw THEN @ ELSE Append(@, <<"unlink", i>>),
                                ![j].unlinkFailed = @ \/ (~unlinked /\ ~threw)]
          /\ run' = [run EXCEPT ![j].i = i + 1,
                                ![j].pc = IF last THEN "assemble" ELSE "try"]
    /\ resp' = NoResp
    /\ UNCHANGED <<page, up, fmt, confirm, submit, jobState, jobData, attemptsMade, backoff, store, since, lastWriter, getPc>>

\* lines 128-136: the finally block of file i: fs.unlink, whose failure is
\* only logged; then the loop goes to the next file or ends
FinallyUnlink(j) ==
    /\ jobState[j] = "active"
    /\ run[j].pc = "finally"
    /\ LET i == run[j].i
           path == jobData[j].tempFilePaths[i]
           last == i >= Len(jobData[j].tempFilePaths)
       IN /\ \E unlinked \in BOOLEAN :
                /\ unlinked => path \in fs
                /\ fs' = IF unlinked THEN fs \ {path} ELSE fs
                /\ trace' = [trace EXCEPT ![j].ops = Append(@, <<"unlink", i>>),
                                          ![j].unlinkFailed = @ \/ ~unlinked]
          /\ run' = [run EXCEPT ![j].i = i + 1,
                                ![j].pc = IF last THEN "assemble" ELSE "try"]
    /\ resp' = NoResp
    /\ UNCHANGED <<page, up, fmt, confirm, submit, jobState, jobData, attemptsMade, backoff, store, since, lastWriter, getPc>>

\* Variants of the rule of lines 140-143, under which the properties of
\* partial success and of total failure must not hold: the job fails as
\* soon as one file has an error, or only when there was no file at all.
AnyFileFailed(j) ==
    Len(run[j].fileProcessingErrors) > 0 /\ Len(jobData[j].tempFilePaths) > 0

NoFileAtAll(j) ==
    run[j].filesProcessedSuccessfully = 0 /\ Len(jobData[j].tempFilePaths) = 0

\* lines 140-143
AllFilesFailed(j) ==
    run[j].filesProcessedSuccessfully = 0 /\ Len(jobData[j].tempFilePaths) > 0

\* lines 145-149
CombinedScheduleData(r) ==
    [termStartDate |-> r.termStartDate,
     termEndDate |-> r.termEndDate,
     scheduleEvents |-> r.allScheduleEvents]

\* A variant of the assembly that stores the combined data as the files
\* gave it, without the result of scheduleDataSchema.parse.
PreviewResultUnparsed(r) ==
    [scheduleData |-> CombinedScheduleData(r),
     processingWarnings |-> r.processingWarnings,
     processingErrors |-> r.fileProcessingErrors]

\* lines 169-182: the PreviewResult handed to JSON.stringify; when
\* previewResultSchema.parse throws the unvalidated data is used as it is
PreviewResultOf(r) ==
    [scheduleData |-> ParsedScheduleData(CombinedScheduleData(r)),
     processingWarnings |-> r.processingWarnings,
     processingErrors |-> r.fileProcessingErrors]

\* A variant of the worker that reports a rejected call as completed.
CompleteJob(j) ==
    /\ jobState' = [jobState EXCEPT ![j] = "completed"]
    /\ UNCHANGED backoff

\* processAiJob rejects: BullMQ delays the job for a retry or fails it
RejectJob(j) ==
    /\ jobState' = [jobState EXCEPT ![j] = StateAfterReject(j)]
    /\ backoff' = [backoff EXCEPT ![j] = DelayAfterReject(j)]

\* lines 138-184: after the loop; throws when every file failed or the
\* combined data is invalid, else assembles the PreviewResult and issues the
\* store write
AssemblePreview(j) ==
    /\ jobState[j] = "active"
    /\ run[j].pc = "assemble"
    /\ IF AllFilesFailed(j) \/ ~scheduleDataSchema(CombinedScheduleData(run[j]))
       THEN /\ run' = [run EXCEPT ![j].pc = "done"]
            /\ trace' = [trace EXCEPT ![j].result = "rejected"]
            /\ RejectJob(j)
       ELSE /\ run' = [run EXCEPT ![j].pc = "set",
                                  ![j].payload = JSONstringify(PreviewResultOf(run[j]))]
            /\ UNCHANGED <<page, up, trace, jobState, backoff>>
    /\ resp' = NoResp
    /\ UNCHANGED <<page, up, fmt, confirm, submit, fs, jobData, attemptsMade, store, since, lastWriter, getPc>>

\* Variants of the store write: one that adds the new events to those of
\* the entry it finds, one that keeps the expiry of the entry it finds.
RedisSetMerging(s, value) ==
    [store EXCEPT ![s] =
        [present |-> TRUE,
         value |-> IF store[s].present
                   THEN [value EXCEPT !.doc.scheduleData.scheduleEvents =
                            store[s].value.doc.scheduleData.scheduleEvents \o @]
                   ELSE value,
         ttl |-> PREVIEW_TTL]]

RedisSetKeepingTtl(s, value) ==
    [store EXCEPT ![s] =
        [present |-> TRUE, value |-> value,
         ttl |-> IF store[s].present THEN store[s].ttl ELSE PREVIEW_TTL]]

\* a write under one key for every session
RedisSetSharedKey(s, value) ==
    [t \in Sessions |-> [present |-> TRUE, value |-> value, ttl |-> PREVIEW_TTL]]

\* redisClient.set(key, value, 'EX', 1800) takes effect: the whole entry is
\* replaced and its expiry starts anew
RedisSet(s, value) ==
    [store EXCEPT ![s] = [present |-> TRUE, value |-> value, ttl |-> PREVIEW_TTL]]

\* lines 184-200: the store write settles; processAiJob returns, or throws
\* when the write was rejected
StoreSet(j) ==
    /\ jobState[j] = "active"
    /\ run[j].pc = "set"
    /\ LET s == jobData[j].sessionId
       IN \/ /\ store' = RedisSet(s, run[j].payload)
             /\ since' = [since EXCEPT ![s] = 0]
             /\ lastWriter' = [lastWriter EXCEPT ![s] = j]
             /\ trace' = [trace EXCEPT ![j].sets = @ + 1, ![j].result = "resolved"]
             /\ jobState' = [jobState EXCEPT ![j] = "completed"]
             /\ UNCHANGED backoff
          \/ /\ trace' = [trace EXCEPT ![j].sets = @ + 1, ![j].setFailed = TRUE,
                                        ![j].result = "rejected"]
             /\ RejectJob(j)
             /\ UNCHANGED <<page, up, store, since, lastWriter>>
    /\ run' = [run EXCEPT ![j].pc = "done"]
    /\ resp' = NoResp
    /\ UNCHANGED <<page, up, fmt, confirm, submit, fs, jobData, attemptsMade, getPc>>

(***************************************************************************)
(* The preview routes.                                                     *)
(***************************************************************************)
Reply(op, s, status) ==
    [NoResp EXCEPT !.op = op, !.session = s, !.status = status]

\* A variant of the read that trusts whatever parses as JSON.
ParsesAsJson(value) == value.json

\* previewResultSchema.safeParse(JSON.parse(storedDataString)).success
StoredValid(value) == value.json /\ previewResultSchema(value.doc)

\* Either route, called without a valid session (no session id, no access
\* token, or an expired one): 401 before the store is touched.  Lines 17-21
\* and 63-67.
Unauthorized(op) ==
    /\ resp' = Reply(op, "", 401)
    /\ UNCHANGED <<page, up, fmt, confirm, submit, fs, jobState, jobData, attemptsMade, backoff, run, trace, store, since, lastWriter, getPc>>

\* GET /api/preview of session s, lines 22-42 and 50-56: the store read and
\* every answer but the one for a corrupted entry.  redisClient.get gives
\* null for an absent key, which line 28 tests with !storedDataString; the
\* values the store holds here are those the worker writes and the
\* malformed ones of the route tests, none of them the empty string, which
\* line 28 would not tell from an absent key.
GetPreview(s) ==
    /\ getPc[s] = "idle"
    /\ \E readOk \in BOOLEAN :
          IF ~readOk
          THEN \* redisClient.get rejects: rethrown, the error handler answers
               /\ resp' = [Reply("GET", s, 500) EXCEPT !.readFailed = TRUE]
               /\ UNCHANGED getPc
          ELSE IF ~store[s].present
          THEN /\ resp' = Reply("GET", s, 404)
               /\ UNCHANGED getPc
          ELSE IF StoredValid(store[s].value)
          THEN /\ resp' = [Reply("GET", s, 200) EXCEPT
                               !.hasPreview = TRUE,
                               !.previewResult = ParsedPreviewResult(store[s].value.doc)]
               /\ UNCHANGED getPc
          ELSE /\ resp' = NoResp
               /\ getPc' = [getPc EXCEPT ![s] = "del"]
    /\ UNCHANGED <<page, up, fmt, confirm, submit, fs, jobState, jobData, attemptsMade, backoff, run, trace, store, since, lastWriter>>

\* A variant of the delete that leaves the entry in place.
RedisDelNothing(s) == store

\* redisClient.del(key) takes effect
RedisDel(s) == [store EXCEPT ![s] = Absent]

\* GET /api/preview, lines 44-48: the stored value did not parse or
\* validate; the key is deleted (a failing delete is only logged), then 500
GetDelCorrupt(s) ==
    /\ getPc[s] = "del"
    /\ \E delOk \in BOOLEAN :
          /\ store' = IF delOk THEN RedisDel(s) ELSE store
          /\ resp' = [Reply("GET", s, 500) EXCEPT !.corrupt = TRUE, !.delOk = delOk]
    /\ getPc' = [getPc EXCEPT ![s] = "idle"]
    /\ UNCHANGED <<page, up, fmt, confirm, submit, fs, jobState, jobData, attemptsMade, backoff, run, trace, since, lastWriter>>

\* Variants of the delete route: one that answers 500 when the delete
\* command fails, one that also takes the session's unfinished jobs off the
\* queue.
DeletePreviewStrict(s) ==
    /\ \E delOk \in BOOLEAN :
          /\ store' = IF delOk THEN RedisDel(s) ELSE store
          /\ resp' = [Reply("DELETE", s, IF delOk THEN 204 ELSE 500) EXCEPT !.delOk = delOk]
    /\ UNCHANGED <<page, up, fmt, confirm, submit, fs, jobState, jobData, attemptsMade, backoff, run, trace, since, lastWriter, getPc>>

DeletePreviewStoppingJobs(s) ==
    /\ \E delOk \in BOOLEAN :
          /\ store' = IF delOk THEN RedisDel(s) ELSE store
          /\ resp' = [Reply("DELETE", s, 204) EXCEPT !.delOk = delOk]
    /\ jobState' = [j \in JobIds |->
                       IF jobData[j].sessionId = s /\ jobState[j] \in {"waiting", "active", "delayed"}
                       THEN "failed" ELSE jobState[j]]
    /\ UNCHANGED <<page, up, fmt, confirm, submit, fs, jobData, attemptsMade, backoff, run, trace, since, lastWriter, getPc>>

\* DELETE /api/preview/delete of session s, lines 68-82: a failing delete
\* is only logged
DeletePreview(s) ==
    /\ \E delOk \in BOOLEAN :
          /\ store' = IF delOk THEN RedisDel(s) ELSE store
          /\ resp' = [Reply("DELETE", s, 204) EXCEPT !.delOk = delOk]
    /\ UNCHANGED <<page, up, fmt, confirm, submit, fs, jobState, jobData, attemptsMade, backoff, run, trace, since, lastWriter, getPc>>

(***************************************************************************)
(* Time: Redis removes an entry when its expiry has run out.               *)
(***************************************************************************)
Min(a, b) == IF a <= b THEN a ELSE b

\* an entry after TickSec more seconds; ttl = 0 on a present entry: the key
\* was set without EX and never expires
Expire(entry) ==
    IF ~entry.present \/ entry.ttl = 0
    THEN entry
    ELSE IF entry.ttl > TickSec
    THEN [entry EXCEPT !.ttl = @ - TickSec]
    ELSE Absent

Tick ==
    /\ store' = [s \in Sessions |-> Expire(store[s])]
    /\ since' = [s \in Sessions |-> Min(PREVIEW_TTL, since[s] + TickSec)]
    /\ resp' = NoResp
    /\ UNCHANGED <<page, up, fmt, confirm, submit, fs, jobState, jobData, attemptsMade, backoff, run, trace, lastWriter, getPc>>

\* the worker and the queue acting on job j
Worker(j) ==
    \/ Activate(j)
    \/ TryFile(j)
    \/ FinallyUnlink(j)
    \/ AssemblePreview(j)
    \/ StoreSet(j)
    \/ Promote(j)

\* the worker and the queue acting on some job
Workers == \E j \in JobIds : Worker(j)

\* the preview routes, called with or without a valid session
Routes ==
    \/ \E op \in {"GET", "DELETE"} : Unauthorized(op)
    \/ \E s \in Sessions : GetPreview(s)
    \/ \E s \in Sessions : DeletePreview(s)

\* One upload of up to MaxFiles files, its job with all its retries, and
\* the preview routes of every session, over a store only the program writes.
Next ==
    \/ Enqueue("j1", {"A"}, MaxFiles)
    \/ Workers
    \/ Routes
    \/ Tick

Spec == Init /\ [][Next]_vars

\* The same, with a worker that keeps taking the steps it can take: BullMQ
\* keeps polling the queue and promotes delayed jobs when their delay has
\* passed, and every call processAiJob awaits settles.
FairSpec == Spec /\ \A j \in JobIds : WF_vars(Worker(j))

\* most files of an upload in the specifications below
SmallUpload == 1

\* Two uploads of one session whose jobs run side by side.
NextRace ==
    \/ Enqueue("j1", {"A"}, SmallUpload)
    \/ Enqueue("j2", {"A"}, SmallUpload)
    \/ Workers
    \/ Routes
    \/ Tick

SpecRace == Init /\ [][NextRace]_vars

(***************************************************************************)
(* A store that holds a value the worker did not write: the route tests    *)
(* put a string that is no JSON, and a document that fails the schema,     *)
(* under the session's key through a second client, without expiry.        *)
(***************************************************************************)
InvalidDoc == [EmptyDoc EXCEPT !.scheduleData.scheduleEvents = <<EvCode123>>]
MalformedValues == {Garbage, JSONstringify(InvalidDoc)}

ForeignSet(s) ==
    /\ \E value \in MalformedValues :
          store' = [store EXCEPT ![s] = [present |-> TRUE, value |-> value, ttl |-> 0]]
    /\ resp' = NoResp
    /\ UNCHANGED <<page, up, fmt, confirm, submit, fs, jobState, jobData, attemptsMade, backoff, run, trace, since, lastWriter, getPc>>

\* One small upload and the preview routes over a store in which malformed
\* values can appear.
NextCorrupt ==
    \/ Enqueue("j1", {"A"}, SmallUpload)
    \/ Workers
    \/ Routes
    \/ Tick
    \/ \E s \in Sessions : ForeignSet(s)
    \/ \E s \in Sessions : GetDelCorrupt(s)

SpecCorrupt == Init /\ [][NextCorrupt]_vars

(***************************************************************************)
(* createCalendarEvents: every descriptor is handed to the limiter, which  *)
(* runs at most CONCURRENCY of the insert tasks at a time; the call        *)
(* resolves when all of them have settled.                                 *)
(***************************************************************************)
\* not a number
NaN == -1

\* the value of a decimal digit
DigitValue(c) ==
    CASE c = "0" -> 0 [] c = "1" -> 1 [] c = "2" -> 2 [] c = "3" -> 3 [] c = "4" -> 4
      [] c = "5" -> 5 [] c = "6" -> 6 [] c = "7" -> 7 [] c = "8" -> 8 [] c = "9" -> 9

\* parseInt(s, 10) of a string: the number its leading digits spell, NaN
\* when it does not begin with a digit
RECURSIVE DigitsValue(_, _)
DigitsValue(s, acc) ==
    IF s = <<>> \/ Head(s) \notin Digits THEN acc
    ELSE DigitsValue(Tail(s), 10 * acc + DigitValue(Head(s)))

parseInt(s) == IF s = <<>> \/ Head(s) \notin Digits THEN NaN ELSE DigitsValue(s, 0)

\* line 193
CONCURRENCY(setting) ==
    parseInt(IF Truthy(setting) THEN setting ELSE <<"5">>)

\* pLimit(concurrency) throws a TypeError unless concurrency is an integer
\* from 1 up
pLimitAccepts(concurrency) == concurrency # NaN /\ concurrency >= 1

\* values of GOOGLE_API_CONCURRENCY in the environment: unset, 2, 0
EnvSettings == {Undef, <<"2">>, <<"0">>}

\* descriptors as the submitter sees them: only the summary is looked at.
\* A descriptor of an event without course code, section and name has the
\* empty summary.
Descriptor(summary) == [summary |-> summary]
Descriptors ==
    <<Descriptor(S("Event 1")), Descriptor(S("Event 2")), Descriptor(<<>>),
      Descriptor(S("CS101")), Descriptor(S("Event 1")), Descriptor(S("MATH200 - Calculus")),
      Descriptor(S("Event 7")), Descriptor(S("Event 8"))>>
Batches == {SubSeq(Descriptors, 1, k) : k \in 0..MaxBatch}

\* what calendar.events.insert rejects with: the provider's answer with a
\* message in its body (the tests' 409), an answer with a status only
\* (the tests' 401), an error without a response, and a thrown value that
\* has no message at all
ErrConflict == [bodyMessage |-> S("Event conflict"), message |-> S("API Error"), status |-> S("409")]
ErrCredentials == [bodyMessage |-> Undef, message |-> S("Invalid credentials"), status |-> S("401")]
ErrNetwork == [bodyMessage |-> Undef, message |-> S("ECONNRESET"), status |-> Undef]
ErrBare == [bodyMessage |-> Undef, message |-> Undef, status |-> Undef]
InsertErrors == {ErrConflict, ErrCredentials, ErrNetwork, ErrBare}
\* the insert was fulfilled, or has not settled
NoError == [bodyMessage |-> Null, message |-> Null, status |-> Null]

\* a task that reports the thrown error's message before the provider's
ThrownPreferringMessage(event, error) ==
    [eventSummary |-> event.summary,
     error |-> IF Truthy(error.message) THEN error.message
               ELSE IF Truthy(error.bodyMessage) THEN error.bodyMessage
               ELSE S("Unknown error during event insertion"),
     statusCode |-> error.status]

\* lines 213-223: what the limited task throws when the insert rejected
NoReason == [eventSummary |-> Undef, error |-> Undef, statusCode |-> Undef]
Thrown(event, error) ==
    [eventSummary |-> event.summary,
     error |-> IF Truthy(error.bodyMessage) THEN error.bodyMessage
               ELSE IF Truthy(error.message) THEN error.message
               ELSE S("Unknown error during event insertion"),
     statusCode |-> error.status]

\* `Event ${index}`, index counted from 0
EventN(i) == <<"Event " \o ToString(i - 1)>>

\* lines 239-243: the entry pushed for the rejected task of descriptor i
ErrorEntry(events, reason, i) ==
    [eventSummary |-> IF Truthy(reason.eventSummary) THEN reason.eventSummary
                      ELSE IF Truthy(events[i].summary) THEN events[i].summary
                      ELSE EventN(i),
     error |-> IF Truthy(reason.error) THEN reason.error ELSE S("Unknown failure reason"),
     status |-> reason.statusCode]

\* an aggregation that reports the first failure only
AggregateFirstFailure(events, st, reason, n) ==
    LET rejected == {i \in 1..n : st[i] # "fulfilled"}
        first == CHOOSE i \in rejected : \A k \in rejected : i <= k
    IN [successCount |-> Cardinality({i \in 1..n : st[i] = "fulfilled"}),
        errors |-> IF rejected = {} THEN <<>> ELSE <<ErrorEntry(events, reason[first], first)>>]

\* lines 230-245: results.forEach over the first n settled results
RECURSIVE Aggregate(_, _, _, _)
Aggregate(events, st, reason, n) ==
    IF n = 0 THEN [successCount |-> 0, errors |-> <<>>]
    ELSE LET before == Aggregate(events, st, reason, n - 1)
         IN IF st[n] = "fulfilled"
            THEN [before EXCEPT !.successCount = @ + 1]
            ELSE [before EXCEPT !.errors = Append(@, ErrorEntry(events, reason[n], n))]

InFlight(st) == {i \in DOMAIN st : st[i] = "inflight"}
Pending(st) == {i \in DOMAIN st : st[i] = "pending"}
Settled(st) == {i \in DOMAIN st : st[i] \in {"fulfilled", "rejected"}}
Lowest(set) == CHOOSE i \in set : \A k \in set : i <= k

\* a limiter that starts a task whatever is running already
UnlimitedStarted(n, concurrency) == n
\* limit(fn) called n times in a row: the limiter starts the first
\* concurrency tasks and queues the others
StartedAtOnce(n, concurrency) == IF n <= concurrency THEN n ELSE concurrency

\* lines 193-226: the state of the call when it reaches the await of line
\* 229, or its rejection when pLimit threw
createCalendarEvents(events, setting) ==
    LET c == CONCURRENCY(setting)
        n == StartedAtOnce(Len(events), c)
    IN IF ~pLimitAccepts(c)
       THEN [NoSubmit EXCEPT !.pc = "rejected", !.events = events, !.concurrency = c,
                             !.threw = S("Expected concurrency to be a number from 1 and up")]
       ELSE [NoSubmit EXCEPT
                !.pc = "running", !.events = events, !.concurrency = c,
                !.st = [i \in 1..Len(events) |-> IF i <= n THEN "inflight" ELSE "pending"],
                !.calls = [i \in 1..Len(events) |-> IF i <= n THEN 1 ELSE 0],
                !.outcome = [i \in 1..Len(events) |-> NoError],
                !.reason = [i \in 1..Len(events) |-> NoReason]]

\* a limiter that does not start the next task when one has thrown
NextNotStartedAfterThrow(st, i, outcome) ==
    IF outcome = NoError /\ Pending(st) # {} THEN {Lowest(Pending(st))} ELSE {}
\* the limiter's next(): when task i has settled, the task queued first,
\* if any, is started
StartedNext(st, i, outcome) ==
    IF Pending(st) # {} THEN {Lowest(Pending(st))} ELSE {}

\* the insert of descriptor i settles: outcome is NoError when it was
\* fulfilled, else the error it rejected with (lines 207-224); the limiter
\* then starts the next queued task
SettleInsert(i) ==
    /\ submit.pc = "running"
    /\ i \in InFlight(submit.st)
    /\ \E outcome \in InsertErrors \cup {NoError} :
          LET started == StartedNext(submit.st, i, outcome)
          IN submit' = [submit EXCEPT
                 !.st = [k \in DOMAIN submit.st |->
                            IF k = i THEN (IF outcome = NoError THEN "fulfilled" ELSE "rejected")
                            ELSE IF k \in started THEN "inflight"
                            ELSE submit.st[k]],
                 !.calls = [k \in DOMAIN submit.calls |->
                            IF k \in started THEN submit.calls[k] + 1 ELSE submit.calls[k]],
                 !.outcome[i] = outcome,
                 !.reason[i] = IF outcome = NoError THEN NoReason
                               ELSE Thrown(submit.events[i], outcome)]
    /\ resp' = NoResp
    /\ UNCHANGED <<page, up, fmt, confirm, fs, jobState, jobData, attemptsMade, backoff, run, trace, store, since, lastWriter, getPc>>

\* Promise.allSettled(insertPromises) resolves
AllSettled(st) == Settled(st) = DOMAIN st

\* lines 229-248: every task has settled, the call resolves with the counts
ResolveCreate ==
    /\ submit.pc = "running"
    /\ AllSettled(submit.st)
    /\ submit' = [submit EXCEPT
           !.pc = "resolved",
           !.result = Aggregate(submit.events, submit.st, submit.reason, Len(submit.events))]
    /\ resp' = NoResp
    /\ UNCHANGED <<page, up, fmt, confirm, fs, jobState, jobData, attemptsMade, backoff, run, trace, store, since, lastWriter, getPc>>

\* createCalendarEvents is called with a batch of descriptors
CallCreate ==
    /\ submit.pc = "idle"
    /\ \E events \in Batches, setting \in EnvSettings :
          submit' = createCalendarEvents(events, setting)
    /\ resp' = NoResp
    /\ UNCHANGED <<page, up, fmt, confirm, fs, jobState, jobData, attemptsMade, backoff, run, trace, store, since, lastWriter, getPc>>

\* One call of createCalendarEvents with any batch, any setting of the
\* concurrency and any outcome of each insert.
NextSubmit ==
    \/ CallCreate
    \/ \E i \in 1..MaxBatch : SettleInsert(i)
    \/ ResolveCreate

SpecSubmit == Init /\ [][NextSubmit]_vars

\* The same, with every insert call settling and the resumption of the
\* call after its await.
FairSubmit ==
    /\ SpecSubmit
    /\ \A i \in 1..MaxBatch : WF_vars(SettleInsert(i))
    /\ WF_vars(ResolveCreate)

\* The same, but the insert of the first descriptor need not ever settle.
FairSubmitSlow ==
    /\ SpecSubmit
    /\ \A i \in 2..MaxBatch : WF_vars(SettleInsert(i))
    /\ WF_vars(ResolveCreate)

(***************************************************************************)
(* formatEventsForGoogle.  A date is the number of its day, counted from   *)
(* 1970-01-01, in the server's local time; a time of day is in minutes.    *)
(* The colour of a descriptor and the RFC 3339 text of its start and end   *)
(* are left out.                                                           *)
(***************************************************************************)
\* the number two decimal digits spell, s[p] and s[p + 1]
TwoDigits(s, p) == 10 * DigitValue(s[p]) + DigitValue(s[p + 1])

YearOf(s) == 100 * TwoDigits(s, 1) + TwoDigits(s, 3)
MonthOf(s) == TwoDigits(s, 6)
DayOf(s) == TwoDigits(s, 9)

\* the day number of year-month-day; a day past the end of the month
\* counts on into the next month, as the Date constructor does
DayNumber(y, m, d) ==
    LET yy == IF m <= 2 THEN y - 1 ELSE y
        era == yy \div 400
        yoe == yy - era * 400
        mp == (m + 9) % 12
        doy == (153 * mp + 2) \div 5 + d - 1
        doe == yoe * 365 + yoe \div 4 - yoe \div 100 + doy
    IN era * 146097 + doe - 719468

\* !isNaN(new Date(`${s}T00:00:00`).getTime()) for s of the shape
\* YYYY-MM-DD: the month is 01..12 and the day 01..31
IsValidDate(s) == DateRe(s) /\ MonthOf(s) \in 1..12 /\ DayOf(s) \in 1..31

\* new Date(`${s}T00:00:00`) as a day number
DateOf(s) == DayNumber(YearOf(s), MonthOf(s), DayOf(s))

\* Date.prototype.getDay(): 0 is Sunday
getDay(day) == (day + 4) % 7

\* parseTimeToMinutes: /^(\d{1,2}):(\d{2})\s*(AM|PM)$/i, hours 1..12
parseTimeToMinutes(timeString) ==
    IF ~Truthy(timeString) \/ ~IsStr(timeString) THEN NaN
    ELSE LET s == timeString
             c == IF Len(s) >= 2 /\ s[2] = ":" THEN 2 ELSE 3
             matches ==
                 /\ Len(s) >= c + 4
                 /\ s[c] = ":"
                 /\ \A k \in 1..(c - 1) : s[k] \in Digits
                 /\ s[c + 1] \in Digits
                 /\ s[c + 2] \in Digits
                 /\ \A k \in (c + 3)..(Len(s) - 2) : s[k] = " "
                 /\ AmPmAt(s, Len(s) - 1)
             hours == IF c = 2 THEN DigitValue(s[1]) ELSE TwoDigits(s, 1)
             minutes == TwoDigits(s, c + 1)
             pm == s[Len(s) - 1] \in {"P", "p"}
             hours24 == IF hours = 12 THEN (IF pm THEN 12 ELSE 0)
                        ELSE IF pm THEN hours + 12 ELSE hours
         IN IF ~matches THEN NaN
            ELSE IF hours < 1 \/ hours > 12 \/ minutes > 59 THEN NaN
            ELSE hours24 * 60 + minutes

\* the keys of dayNameToRRULE in their order, and its values
DayNames ==
    <<S("monday"), S("tuesday"), S("wednesday"), S("thursday"),
      S("friday"), S("saturday"), S("sunday")>>
RRuleDays == <<"MO", "TU", "WE", "TH", "FR", "SA", "SU">>

\* d.toLowerCase() of the day names the model uses
toLowerCase(d) ==
    CASE d = S("Monday") -> S("monday")
      [] d = S("Tuesday") -> S("tuesday")
      [] d = S("Wednesday") -> S("wednesday")
      [] d = S("Thursday") -> S("thursday")
      [] d = S("Friday") -> S("friday")
      [] d = S("Saturday") -> S("saturday")
      [] d = S("Sunday") -> S("sunday")
      [] OTHER -> d

\* Object.keys(dayNameToRRULE).indexOf(dayName), counted from 0
DayIndex(dayName) == (CHOOSE k \in 1..7 : DayNames[k] = dayName) - 1

\* line 94: the recognised days of an event, lower-cased, in their order
RECURSIVE daysOfWeek(_)
daysOfWeek(days) ==
    IF days = <<>> THEN <<>>
    ELSE LET d == toLowerCase(Head(days))
         IN (IF \E k \in 1..7 : DayNames[k] = d THEN <<d>> ELSE <<>>) \o daysOfWeek(Tail(days))

\* a search that takes the first day the event lists
daysToAddFirstListed(dow, termStart) ==
    LET startDayOfWeek == getDay(termStart)
        currentDayIndex == IF startDayOfWeek = 0 THEN 6 ELSE startDayOfWeek - 1
    IN IF dow = <<>> THEN 7 ELSE (DayIndex(dow[1]) - currentDayIndex + 7) % 7

\* lines 100-109: days from the term's first day to the first selected
\* weekday, 7 when none is selected
daysToAdd(dow, termStart) ==
    LET startDayOfWeek == getDay(termStart)
        currentDayIndex == IF startDayOfWeek = 0 THEN 6 ELSE startDayOfWeek - 1
        diffs == {(DayIndex(dow[k]) - currentDayIndex + 7) % 7 : k \in 1..Len(dow)}
    IN IF diffs = {} THEN 7 ELSE CHOOSE d \in diffs : \A e \in diffs : d <= e

\* line 152: the summary of a descriptor
Summary(event) ==
    event.courseCode
      \o (IF Truthy(event.sectionDetails) THEN S(" (") \o event.sectionDetails \o S(")") ELSE <<>>)
      \o (IF Truthy(event.courseName) THEN S(" - ") \o event.courseName ELSE <<>>)

\* a formatter that does not compare the first occurrence with the term end
FormatEventIgnoringTermEnd(event, termStart, untilDate) ==
    LET startMinutes == parseTimeToMinutes(event.startTime)
        endMinutes == parseTimeToMinutes(event.endTime)
        dow == daysOfWeek(event.days)
    IN IF Len(event.days) = 0 THEN <<>>
       ELSE IF ~Truthy(event.startTime) \/ ~Truthy(event.endTime) THEN <<>>
       ELSE IF Len(dow) = 0 \/ startMinutes = NaN \/ endMinutes = NaN THEN <<>>
       ELSE IF startMinutes >= endMinutes THEN <<>>
       ELSE <<[summary |-> Summary(event),
               firstOccurrence |-> termStart + daysToAdd(dow, termStart),
               startMinutes |-> startMinutes,
               endMinutes |-> endMinutes,
               byDay |-> [k \in 1..Len(dow) |-> RRuleDays[DayIndex(dow[k]) + 1]],
               untilDate |-> untilDate]>>

\* lines 86-170: the descriptors (none or one) the loop pushes for an event
FormatEvent(event, termStart, untilDate) ==
    LET startMinutes == parseTimeToMinutes(event.startTime)
        endMinutes == parseTimeToMinutes(event.endTime)
        dow == daysOfWeek(event.days)
        firstOccurrence == termStart + daysToAdd(dow, termStart)
    IN IF Len(event.days) = 0 THEN <<>>
       ELSE IF ~Truthy(event.startTime) \/ ~Truthy(event.endTime) THEN <<>>
       ELSE IF Len(dow) = 0 \/ startMinutes = NaN \/ endMinutes = NaN THEN <<>>
       ELSE IF startMinutes >= endMinutes THEN <<>>
       ELSE IF daysToAdd(dow, termStart) = 7 THEN <<>>
       ELSE IF firstOccurrence * 1440 + startMinutes >= untilDate * 1440 THEN <<>>
       ELSE <<[summary |-> Summary(event),
               firstOccurrence |-> firstOccurrence,
               startMinutes |-> startMinutes,
               endMinutes |-> endMinutes,
               byDay |-> [k \in 1..Len(dow) |-> RRuleDays[DayIndex(dow[k]) + 1]],
               untilDate |-> untilDate]>>

RECURSIVE FormatEvents(_, _, _)
FormatEvents(events, termStart, untilDate) ==
    IF events = <<>> THEN <<>>
    ELSE FormatEvent(Head(events), termStart, untilDate)
           \o FormatEvents(Tail(events), termStart, untilDate)

\* the time zones the model uses: one the runtime knows and one it does
\* not; the empty string is a third
UTC == <<"U", "T", "C">>
XYZ == <<"X", "Y", "Z">>
\* Intl.DateTimeFormat(undefined, { timeZone: tz }) does not throw
IsTimeZone(tz) == tz = UTC

\* a formatter that looks at the term dates before it looks at the timezone
formatEventsForGoogleDatesFirst(scheduleData, userTimeZone) ==
    IF ~Truthy(scheduleData.termStartDate) \/ ~Truthy(scheduleData.termEndDate)
    THEN [threw |-> S("Term start and end dates are required to create recurring events."),
          events |-> <<>>]
    ELSE IF ~IsValidDate(scheduleData.termStartDate) \/ ~IsValidDate(scheduleData.termEndDate)
    THEN [threw |-> S("Invalid term start or end date format. Please use YYYY-MM-DD."),
          events |-> <<>>]
    ELSE IF ~IsTimeZone(userTimeZone)
    THEN [threw |-> <<"Invalid user timezone", " ('">> \o userTimeZone
                        \o <<"') provided. Cannot format events accurately.">>,
          events |-> <<>>]
    ELSE [threw |-> Undef,
          events |-> FormatEvents(scheduleData.scheduleEvents,
                                  DateOf(scheduleData.termStartDate),
                                  DateOf(scheduleData.termEndDate) + 1)]

\* formatEventsForGoogle(scheduleData, userTimeZone): the error it throws,
\* or the descriptors it returns
formatEventsForGoogle(scheduleData, userTimeZone) ==
    IF ~IsTimeZone(userTimeZone)
    THEN [threw |-> <<"Invalid user timezone", " ('">> \o userTimeZone
                        \o <<"') provided. Cannot format events accurately.">>,
          events |-> <<>>]
    ELSE IF ~Truthy(scheduleData.termStartDate) \/ ~Truthy(scheduleData.termEndDate)
    THEN [threw |-> S("Term start and end dates are required to create recurring events."),
          events |-> <<>>]
    ELSE IF ~IsValidDate(scheduleData.termStartDate) \/ ~IsValidDate(scheduleData.termEndDate)
    THEN [threw |-> S("Invalid term start or end date format. Please use YYYY-MM-DD."),
          events |-> <<>>]
    ELSE [threw |-> Undef,
          events |-> FormatEvents(scheduleData.scheduleEvents,
                                  DateOf(scheduleData.termStartDate),
                                  DateOf(scheduleData.termEndDate) + 1)]

(***************************************************************************)
(* One call of formatEventsForGoogle, step by step: the checks, one        *)
(* iteration of the forEach per step, the return.  A Date is an instant in *)
(* minutes since the epoch; the server's local time is offset minutes east *)
(* of UTC, without daylight saving.  Location, description and reminders   *)
(* of a descriptor are left out.                                           *)
(***************************************************************************)
GOOGLE_COLOR_IDS == <<"1", "2", "3", "4", "5", "6", "7", "8", "9", "10", "11">>

\* year, month and day of a day number
CivilOf(day) ==
    LET z == day + 719468
        era == z \div 146097
        doe == z - era * 146097
        yoe == (doe - doe \div 1460 + doe \div 36524 - doe \div 146096) \div 365
        doy == doe - (365 * yoe + yoe \div 4 - yoe \div 100)
        mp == (5 * doy + 2) \div 153
        d == doy - (153 * mp + 2) \div 5 + 1
        m == IF mp < 10 THEN mp + 3 ELSE mp - 9
    IN [year |-> yoe + era * 400 + (IF m <= 2 THEN 1 ELSE 0), month |-> m, day |-> d]

Pad2(n) == IF n < 10 THEN "0" \o ToString(n) ELSE ToString(n)

\* new Date(`${s}T00:00:00`): midnight of the day in the server's local time
LocalMidnight(s, offset) == DateOf(s) * 1440 - offset

\* the text of a day number: year, month and day
DateText(day) ==
    LET c == CivilOf(day)
    IN <<ToString(c.year), Pad2(c.month), Pad2(c.day)>>

\* date.toISOString().split('T')[0].replace(/-/g, ''): the UTC date of an
\* instant
toISOStringDate(instant) == DateText(instant \div 1440)

\* lines 78-81: untilDate and rruleEndDateUTC
UntilDate(termEndDate, offset) == LocalMidnight(termEndDate, offset) + 1440
RruleEndDateUTC(termEndDate, offset) ==
    toISOStringDate(UntilDate(termEndDate, offset)) \o <<"T000000Z">>

\* lines 146-147: format(date, "yyyy-MM-dd'T'HH:mm:ssXXX", { timeZone }) of
\* date-fns-tz prints the fields of the date in the server's local time and
\* the UTC offset of the given zone; the text is kept as the date and the
\* minute of the day printed and the zone whose offset is printed
format(instant, offset, timeZone) ==
    [date |-> DateText((instant + offset) \div 1440),
     minutes |-> (instant + offset) % 1440,
     offsetOf |-> timeZone]

\* courseColorMap.has(code) and courseColorMap.get(code)
MapHas(map, code) == \E k \in DOMAIN map : map[k].code = code
MapGet(map, code) == map[CHOOSE k \in DOMAIN map : map[k].code = code].color

\* a palette a colour is drawn from and not taken out of
SpliceNothing(colors, randomIndex) == colors

\* availableColors.splice(randomIndex, 1): what is left
Splice(colors, randomIndex) ==
    [k \in 1..(Len(colors) - 1) |-> IF k <= randomIndex THEN colors[k] ELSE colors[k + 1]]

\* lines 127-141: eventColorId and the colour state after an event that
\* was not skipped; random is the value of Math.random() in hundredths
AssignColor(f, event, random) ==
    LET code == event.courseCode
        randomIndex == (random * Len(f.availableColors)) \div 100
        fallback == GOOGLE_COLOR_IDS[(f.fallbackColorIndex % Len(GOOGLE_COLOR_IDS)) + 1]
        same == [courseColorMap |-> f.courseColorMap, availableColors |-> f.availableColors,
                 fallbackColorIndex |-> f.fallbackColorIndex]
    IN IF Truthy(code) /\ MapHas(f.courseColorMap, code)
       THEN same @@ [eventColorId |-> <<MapGet(f.courseColorMap, code)>>]
       ELSE IF Truthy(code)
       THEN IF Len(f.availableColors) > 0
            THEN [courseColorMap |-> Append(f.courseColorMap,
                      [code |-> code, color |-> f.availableColors[randomIndex + 1]]),
                  availableColors |-> Splice(f.availableColors, randomIndex),
                  fallbackColorIndex |-> f.fallbackColorIndex,
                  eventColorId |-> <<f.availableColors[randomIndex + 1]>>]
            ELSE [courseColorMap |-> Append(f.courseColorMap, [code |-> code, color |-> fallback]),
                  availableColors |-> f.availableColors,
                  fallbackColorIndex |-> f.fallbackColorIndex + 1,
                  eventColorId |-> <<fallback>>]
       ELSE same @@ [eventColorId |-> Undef]

\* lines 146-168: the descriptor pushed for an event that was not skipped;
\* base holds what lines 91-124 computed for it
GoogleEvent(base, f, eventColorId) ==
    [summary |-> base.summary,
     start |-> [dateTime |-> format(base.firstOccurrence * 1440 - f.offset + base.startMinutes,
                                    f.offset, f.userTimeZone),
                timeZone |-> f.userTimeZone],
     end |-> [dateTime |-> format(base.firstOccurrence * 1440 - f.offset + base.endMinutes,
                                  f.offset, f.userTimeZone),
              timeZone |-> f.userTimeZone],
     recurrence |-> <<[freq |-> "WEEKLY", byDay |-> base.byDay, until |-> f.rruleEndDateUTC]>>,
     colorId |-> eventColorId]

\* the UTC offsets of the server's local time the model uses: New York in
\* winter, UTC, and Berlin in summer
ServerOffsets == {0 - 300, 0, 120}
\* the values of Math.random() the model uses, in hundredths
RandomValues == {0, 99}

D20241345 == <<"2", "0", "2", "4", "-", "1", "3", "-", "4", "5">>
\* an event the user left without a course code
EvNoCode == [EvCS101 EXCEPT !.courseCode = <<>>, !.extra = Undef]
\* an event on a day the formatter does not know
EvFunday == [EvMATH200 EXCEPT !.days = <<S("Funday")>>]
D20240905 == <<"2", "0", "2", "4", "-", "0", "9", "-", "0", "5">>
D20240908 == <<"2", "0", "2", "4", "-", "0", "9", "-", "0", "8">>
D20241130 == <<"2", "0", "2", "4", "-", "1", "1", "-", "3", "0">>
D20241231 == <<"2", "0", "2", "4", "-", "1", "2", "-", "3", "1">>
T2500AM == <<"2", "5", ":", "0", "0", " ", "A", "M">>

\* events the formatter skips, and events it formats
EvWedMon == [EvMATH200 EXCEPT !.courseCode = S("CS101"), !.days = <<S("Wednesday"), S("Monday")>>]
EvBadTime == [EvMATH200 EXCEPT !.courseCode = S("PHYS1"), !.startTime = T2500AM]
EvNoTime == [EvMATH200 EXCEPT !.courseCode = S("BIO1"), !.endTime = <<>>]
EventPool ==
    {StripEvent(EvCS101), EvMATH200, EvWedMon, EvNoDays, EvFunday,
     EvNoCode, EvBadTime, EvLate, EvNoTime}

\* every list of at most MaxEvents events of the pool
EventLists == UNION {[1..n -> EventPool] : n \in 0..MaxEvents}

\* a schedule with more course codes than the palette has colours: an
\* event per code, a skipped event with a code of its own after the first,
\* and at the end the first and the last code again
Course(k) == [EvNoDays EXCEPT !.courseCode = <<"C" \o ToString(k)>>, !.days = <<S("Monday")>>]
LongSchedule ==
    <<Course(1), EvLate>> \o [k \in 1..(MaxCourses - 1) |-> Course(k + 1)]
        \o <<Course(1), Course(MaxCourses)>>

\* the calls the model follows: term dates of every kind with every
\* timezone and server offset, event lists of every kind over terms that
\* start on a Monday, a Thursday and a Sunday, and the long schedule
FormatCalls ==
    {[scheduleData |-> [termStartDate |-> a, termEndDate |-> b,
                        scheduleEvents |-> <<StripEvent(EvCS101), EvMATH200>>],
      userTimeZone |-> tz, offset |-> o] :
        a \in {D20240902, D20241210, Null, BadDate, D20241345},
        b \in {D20241210, D20241130, D20241231, D20240902, Null, D20241345},
        tz \in {UTC, XYZ, <<>>}, o \in ServerOffsets}
    \cup
    {[scheduleData |-> [termStartDate |-> a, termEndDate |-> D20241210, scheduleEvents |-> evs],
      userTimeZone |-> tz, offset |-> 0] :
        a \in {D20240902, D20240905, D20240908}, evs \in EventLists, tz \in {UTC, XYZ}}
    \cup
    {[scheduleData |-> [termStartDate |-> D20240902, termEndDate |-> D20241210,
                        scheduleEvents |-> LongSchedule],
      userTimeZone |-> UTC, offset |-> 0]}

\* the calls that follow an earlier call: the schedules of one event
RepeatCalls ==
    {call \in FormatCalls :
        /\ Len(call.scheduleData.scheduleEvents) = 1
        /\ call.scheduleData.termStartDate = D20240902}

\* lines 41-81: formatEventsForGoogle is called; it throws, or sets up its
\* locals and enters the forEach
CallFormat ==
    /\ fmt.pc \in {"idle", "returned", "threw"}
    /\ \E call \in IF fmt.pc = "idle" THEN FormatCalls ELSE RepeatCalls :
          LET sd == call.scheduleData
              f0 == [NoFormat EXCEPT !.scheduleData = sd, !.userTimeZone = call.userTimeZone,
                                     !.offset = call.offset]
              checked == formatEventsForGoogle([sd EXCEPT !.scheduleEvents = <<>>], call.userTimeZone)
          IN fmt' = IF checked.threw # Undef
                    THEN [f0 EXCEPT !.pc = "threw", !.threw = checked.threw]
                    ELSE [f0 EXCEPT
                            !.pc = "looping",
                            !.termStart = LocalMidnight(sd.termStartDate, call.offset),
                            !.untilDate = UntilDate(sd.termEndDate, call.offset),
                            !.rruleEndDateUTC = RruleEndDateUTC(sd.termEndDate, call.offset),
                            !.availableColors = GOOGLE_COLOR_IDS]
    /\ UNCHANGED <<page, up, fs, jobState, jobData, attemptsMade, backoff, run, trace, store, since,
                   lastWriter, getPc, resp, confirm, submit>>

\* a loop that a skipped event ends
FormatNextStoppingAtSkip ==
    /\ fmt.pc = "looping"
    /\ fmt.index < Len(fmt.scheduleData.scheduleEvents)
    /\ \E random \in RandomValues :
          LET event == fmt.scheduleData.scheduleEvents[fmt.index + 1]
              base == FormatEvent(event, (fmt.termStart + fmt.offset) \div 1440,
                                  (fmt.untilDate + fmt.offset) \div 1440)
              colored == AssignColor(fmt, event, random)
          IN fmt' = IF base = <<>>
                    THEN [fmt EXCEPT !.index = Len(fmt.scheduleData.scheduleEvents)]
                    ELSE [fmt EXCEPT
                            !.index = @ + 1,
                            !.courseColorMap = colored.courseColorMap,
                            !.availableColors = colored.availableColors,
                            !.fallbackColorIndex = colored.fallbackColorIndex,
                            !.googleEvents = Append(@, GoogleEvent(base[1], fmt, colored.eventColorId))]
    /\ UNCHANGED <<page, up, fs, jobState, jobData, attemptsMade, backoff, run, trace, store, since,
                   lastWriter, getPc, resp, confirm, submit>>

\* lines 85-176: one iteration of the forEach; the event is skipped, or
\* gets its colour and its descriptor is pushed
FormatNext ==
    /\ fmt.pc = "looping"
    /\ fmt.index < Len(fmt.scheduleData.scheduleEvents)
    /\ \E random \in RandomValues :
          LET event == fmt.scheduleData.scheduleEvents[fmt.index + 1]
              base == FormatEvent(event, (fmt.termStart + fmt.offset) \div 1440,
                                  (fmt.untilDate + fmt.offset) \div 1440)
              colored == AssignColor(fmt, event, random)
          IN fmt' = IF base = <<>>
                    THEN [fmt EXCEPT !.index = @ + 1]
                    ELSE [fmt EXCEPT
                            !.index = @ + 1,
                            !.courseColorMap = colored.courseColorMap,
                            !.availableColors = colored.availableColors,
                            !.fallbackColorIndex = colored.fallbackColorIndex,
                            !.googleEvents = Append(@, GoogleEvent(base[1], fmt, colored.eventColorId))]
    /\ UNCHANGED <<page, up, fs, jobState, jobData, attemptsMade, backoff, run, trace, store, since,
                   lastWriter, getPc, resp, confirm, submit>>

\* lines 178-179: the forEach is over, googleEvents is returned
ReturnFormat ==
    /\ fmt.pc = "looping"
    /\ fmt.index = Len(fmt.scheduleData.scheduleEvents)
    /\ fmt' = [fmt EXCEPT !.pc = "returned"]
    /\ UNCHANGED <<page, up, fs, jobState, jobData, attemptsMade, backoff, run, trace, store, since,
                   lastWriter, getPc, resp, confirm, submit>>

\* Calls of formatEventsForGoogle, one after the other.
NextFormat ==
    \/ CallFormat
    \/ FormatNext
    \/ ReturnFormat

SpecFormat == Init /\ [][NextFormat]_vars

(***************************************************************************)
(* POST /api/calendar/create, the confirm handler.                         *)
(***************************************************************************)
\* the issue zod reports for a value that is not a string
TypeIssue(path, v) ==
    [path |-> path,
     message |-> IF v = Undef THEN S("Required")
                 ELSE IF v = Null THEN S("Expected string, received null")
                 ELSE S("Expected string, received number")]

\* issue.path.join('.') of a field of the k-th event, k counted from 0
EventPath(k, field) == <<"scheduleEvents." \o ToString(k - 1) \o "." \o field>>

\* the issues of dateStringSchema.nullable() on a term date
DateIssues(path, d) ==
    IF d = Null THEN <<>>
    ELSE IF ~IsStr(d) THEN <<TypeIssue(S(path), d)>>
    ELSE IF ~DateRe(d) THEN <<[path |-> S(path), message |-> S("Invalid date format, expected YYYY-MM-DD")]>>
    ELSE <<>>

StringIssues(path, v) == IF IsStr(v) THEN <<>> ELSE <<TypeIssue(path, v)>>
NullableIssues(path, v) == IF IsNullableStr(v) THEN <<>> ELSE <<TypeIssue(path, v)>>
TimeIssues(path, v, message) ==
    IF ~IsStr(v) THEN <<TypeIssue(path, v)>>
    ELSE IF ~TimeRe(v) THEN <<[path |-> path, message |-> S(message)]>>
    ELSE <<>>

\* the issues of scheduleEventSchema on the k-th event
EventIssues(e, k) ==
    StringIssues(EventPath(k, "courseCode"), e.courseCode)
      \o NullableIssues(EventPath(k, "courseName"), e.courseName)
      \o NullableIssues(EventPath(k, "sectionDetails"), e.sectionDetails)
      \o (IF Len(e.days) >= 1 THEN <<>>
          ELSE <<[path |-> EventPath(k, "days"),
                  message |-> S("Array must contain at least 1 element(s)")]>>)
      \o TimeIssues(EventPath(k, "startTime"), e.startTime, "Invalid start time format")
      \o TimeIssues(EventPath(k, "endTime"), e.endTime, "Invalid end time format")
      \o NullableIssues(EventPath(k, "location"), e.location)

RECURSIVE EventsIssues(_, _)
EventsIssues(events, n) ==
    IF n = 0 THEN <<>> ELSE EventsIssues(events, n - 1) \o EventIssues(events[n], n)

\* the issues of userTimeZone: z.string().min(3, ...).refine(...); the
\* refinement is evaluated whether or not the length check passed
TimeZoneIssues(tz) ==
    IF ~IsStr(tz) THEN <<TypeIssue(S("userTimeZone"), tz)>>
    ELSE (IF Len(tz) >= 3 THEN <<>>
          ELSE <<[path |-> S("userTimeZone"), message |-> S("Timezone is required")]>>)
           \o (IF IsTimeZone(tz) THEN <<>>
               ELSE <<[path |-> S("userTimeZone"),
                       message |-> S("Invalid IANA time zone identifier provided")]>>)

\* error.issues of createCalendarBodySchema.parse(request.body); the parse
\* succeeds when there is none
BodyIssues(body) ==
    DateIssues("termStartDate", body.termStartDate)
      \o DateIssues("termEndDate", body.termEndDate)
      \o EventsIssues(body.scheduleEvents, Len(body.scheduleEvents))
      \o TimeZoneIssues(body.userTimeZone)

createCalendarBodySchema(body) == BodyIssues(body) = <<>>

\* lines 281-285: validatedScheduleData, unknown keys stripped by the parse
validatedScheduleData(body) ==
    ParsedScheduleData([termStartDate |-> body.termStartDate,
                        termEndDate |-> body.termEndDate,
                        scheduleEvents |-> body.scheduleEvents])

\* request bodies.  The preview as the page got it, edited or not:
Body(termStartDate, termEndDate, scheduleEvents, userTimeZone) ==
    [termStartDate |-> termStartDate, termEndDate |-> termEndDate,
     scheduleEvents |-> scheduleEvents, userTimeZone |-> userTimeZone]
ConfirmBodies ==
    {Body(D20240902, D20241210, <<EvCS101, EvMATH200>>, UTC),
     Body(D20240902, D20241210, <<EvNoCode, EvFunday>>, UTC),
     Body(D20240902, D20241210, <<EvFunday>>, UTC),
     Body(D20240902, D20241210, <<>>, UTC),
     Body(Null, D20241210, <<EvCS101>>, UTC),
     Body(D20240902, D20241345, <<EvCS101>>, UTC),
     Body(D20240902, D20241210, <<EvCS101>>, <<>>),
     Body(D20240902, D20241210, <<EvCS101>>, XYZ),
     Body(BadDate, D20241210, <<EvCode123>>, UTC)}

\* redisClient.del(redisKey) is called and not awaited
IssueDel(c) == [c EXCEPT !.delIssued = @ + 1, !.del = "pending"]

\* a reply that reports success whenever at least one series was created
FinalReplyOptimistic(googleEvents, creationResult) ==
    IF creationResult.successCount > 0 \/ Len(creationResult.errors) = 0
    THEN [NoReply EXCEPT !.status = 200, !.success = TRUE,
                         !.message = S("Successfully created event series."),
                         !.created = <<ToString(creationResult.successCount)>>]
    ELSE [NoReply EXCEPT !.status = 200, !.success = FALSE,
                         !.message = S("Created event series, but failed for some."),
                         !.result = creationResult, !.hasResult = TRUE]

\* lines 328-342: the reply after the submission step
FinalReply(googleEvents, creationResult) ==
    IF Len(creationResult.errors) = 0 /\ Len(googleEvents) > 0
    THEN [NoReply EXCEPT !.status = 200, !.success = TRUE,
                         !.message = S("Successfully created event series."),
                         !.created = <<ToString(creationResult.successCount)>>]
    ELSE IF Len(creationResult.errors) > 0
    THEN [NoReply EXCEPT !.status = 200, !.success = FALSE,
                         !.message = S("Created event series, but failed for some."),
                         !.result = creationResult, !.hasResult = TRUE]
    ELSE IF Len(googleEvents) = 0 /\ creationResult.successCount = 0
    THEN [NoReply EXCEPT !.status = 200, !.success = TRUE,
                         !.message = S("Schedule processed, but no valid events found to add to the calendar."),
                         !.created = <<"0">>]
    ELSE [NoReply EXCEPT !.status = 500, !.success = FALSE,
                         !.error = S("Internal Server Error"),
                         !.message = S("An unexpected error occurred processing the final response.")]

\* a handler that cleans up before it looks at the body
ConfirmDeletingFirst(c) == IssueDel(c)
\* lines 253-277: nothing but the reply happens on a body that fails the
\* schema
OnInvalidBody(c) == c

\* lines 298-306: the handler returns from the catch block of the formatter
OnFormatError(c) == c

\* message.includes(text), for messages kept as the pieces they are built of
Includes(message, text) == \E k \in DOMAIN message : message[k] = text

\* a catch block that answers every error of the formatter alike
FormatErrorReplyAlways500(message) ==
    [NoReply EXCEPT !.status = 500, !.error = S("Processing Error"),
                    !.message = S("Failed to process schedule: ") \o message]

\* lines 301-305: the reply of the catch block to the error the formatter
\* threw
FormatErrorReply(message) ==
    IF Includes(message, "Invalid user timezone")
    THEN [NoReply EXCEPT !.status = 400, !.error = S("Bad Request"), !.message = message]
    ELSE [NoReply EXCEPT !.status = 500, !.error = S("Processing Error"),
                         !.message = S("Failed to process schedule: ") \o message]

\* a handler that cleans up only when nothing failed
CleanupUnlessFailed(c) ==
    IF Len(c.creationResult.errors) = 0 THEN IssueDel(c) ELSE c
\* lines 321-324: the cleanup after the submission step
Cleanup(c) == IssueDel(c)

\* lines 241-247: a request without a valid session or with an expired
\* token is answered 401
ConfirmUnauthorized ==
    /\ confirm.pc = "idle"
    /\ \E body \in ConfirmBodies :
          confirm' = [confirm EXCEPT
              !.pc = "replied", !.body = body,
              !.reply = [NoReply EXCEPT !.status = 401, !.error = S("Unauthorized"),
                            !.message = S("Invalid session or token expired. Please log in again.")]]
    /\ resp' = NoResp
    /\ UNCHANGED <<page, up, fmt, submit, fs, jobState, jobData, attemptsMade, backoff, run, trace, store, since, lastWriter, getPc>>

\* lines 248-324 up to the first await: a request of session s is
\* validated and formatted; with descriptors createCalendarEvents is called
\* and awaited, without any the handler goes on to the cleanup and replies
PostConfirm(s) ==
    /\ confirm.pc = "idle"
    /\ submit.pc = "idle"
    /\ \E body \in ConfirmBodies, setting \in EnvSettings :
          LET c0 == [confirm EXCEPT !.session = s, !.body = body]
              issues == BodyIssues(body)
              formatted == formatEventsForGoogle(validatedScheduleData(body), body.userTimeZone)
              c1 == [c0 EXCEPT !.formatterCalls = @ + 1, !.formatterThrew = formatted.threw,
                               !.googleEvents = formatted.events]
          IN IF issues # <<>>
             THEN /\ confirm' = [OnInvalidBody(c0) EXCEPT
                        !.pc = "replied",
                        !.reply = [NoReply EXCEPT !.status = 400, !.error = S("Validation Error"),
                                      !.message = S("Invalid request body provided."),
                                      !.issues = issues]]
                  /\ UNCHANGED submit
             ELSE IF formatted.threw # Undef
             THEN /\ confirm' = [OnFormatError(c1) EXCEPT
                        !.pc = "replied",
                        !.reply = FormatErrorReply(formatted.threw)]
                  /\ UNCHANGED submit
             ELSE IF Len(formatted.events) > 0
             THEN /\ confirm' = [c1 EXCEPT !.pc = "submitting", !.submitterCalls = @ + 1]
                  /\ submit' = createCalendarEvents(formatted.events, setting)
             ELSE /\ confirm' = [Cleanup(c1) EXCEPT
                        !.pc = "replied",
                        !.reply = FinalReply(c1.googleEvents, c1.creationResult)]
                  /\ UNCHANGED submit
    /\ resp' = NoResp
    /\ UNCHANGED <<page, up, fmt, fs, jobState, jobData, attemptsMade, backoff, run, trace, store, since, lastWriter, getPc>>

\* lines 311-342: createCalendarEvents has resolved or rejected; the
\* handler takes the result (or records the overall failure), issues the
\* cleanup and replies
ConfirmResume ==
    /\ confirm.pc = "submitting"
    /\ submit.pc \in {"resolved", "rejected"}
    /\ LET creationResult ==
               IF submit.pc = "resolved" THEN submit.result
               ELSE [successCount |-> 0,
                     errors |-> <<[eventSummary |-> S("Overall Process Failure"),
                                   error |-> IF Truthy(submit.threw) THEN submit.threw
                                             ELSE S("Unknown calendar API error"),
                                   status |-> Undef]>>]
           c1 == [confirm EXCEPT !.creationResult = creationResult]
       IN confirm' = [Cleanup(c1) EXCEPT
                         !.pc = "replied",
                         !.reply = FinalReply(c1.googleEvents, creationResult)]
    /\ resp' = NoResp
    /\ UNCHANGED <<page, up, fmt, submit, fs, jobState, jobData, attemptsMade, backoff, run, trace, store, since, lastWriter, getPc>>

\* a delete that spares a preview written after the request began
DelSettleSparingNewer ==
    /\ confirm.del = "pending"
    /\ \E delOk \in BOOLEAN :
          /\ store' = IF delOk /\ lastWriter[confirm.session] # "j2"
                       THEN RedisDel(confirm.session) ELSE store
          /\ confirm' = [confirm EXCEPT !.del = IF delOk THEN "done" ELSE "failed"]
    /\ resp' = NoResp
    /\ UNCHANGED <<page, up, fmt, submit, fs, jobState, jobData, attemptsMade, backoff, run, trace, since, lastWriter, getPc>>

\* the delete the handler issued reaches Redis, or fails; the handler only
\* logs either
DelSettle ==
    /\ confirm.del = "pending"
    /\ \E delOk \in BOOLEAN :
          /\ store' = IF delOk THEN RedisDel(confirm.session) ELSE store
          /\ confirm' = [confirm EXCEPT !.del = IF delOk THEN "done" ELSE "failed"]
    /\ resp' = NoResp
    /\ UNCHANGED <<page, up, fmt, submit, fs, jobState, jobData, attemptsMade, backoff, run, trace, since, lastWriter, getPc>>

\* One small upload of session A with its job, and one confirm request
\* with its submission and its cleanup.
NextConfirm ==
    \/ Enqueue("j1", {"A"}, SmallUpload)
    \/ Workers
    \/ ConfirmUnauthorized
    \/ PostConfirm("A")
    \/ \E i \in 1..MaxBatch : SettleInsert(i)
    \/ ResolveCreate
    \/ ConfirmResume
    \/ DelSettle

SpecConfirm == Init /\ [][NextConfirm]_vars

\* the session uploads again while its confirm request awaits
\* createCalendarEvents
UploadDuringConfirm(j) ==
    /\ confirm.pc = "submitting"
    /\ Enqueue(j, {confirm.session}, SmallUpload)

\* A confirm request of session A for a schedule it previewed before, with
\* its submission and its cleanup, and an upload the session makes during
\* the request, with its job.
NextConfirmRace ==
    \/ Workers
    \/ PostConfirm("A")
    \/ \E i \in 1..MaxBatch : SettleInsert(i)
    \/ ResolveCreate
    \/ ConfirmResume
    \/ DelSettle
    \/ UploadDuringConfirm("j2")

SpecConfirmRace == Init /\ [][NextConfirmRace]_vars

\* lines 184 of the worker, 24 and 70 of the preview routes, 292 of the
\* confirm handler: the key of a session's preview
RedisKey(s) == <<"preview:", s>>

\* Two sessions.  Session B uploads, and when its job has completed at its
\* first attempt and removed its files, session A uploads; both call the
\* preview routes; when its job has completed and no route is at work,
\* session A sends a confirm request, which runs with its submission and
\* its cleanup while no route is called.
NextSessions ==
    \/ Enqueue("j2", {"B"}, SmallUpload)
    \/ /\ jobState["j2"] = "completed"
       /\ attemptsMade["j2"] = 1
       /\ fs = {}
       /\ Enqueue("j1", {"A"}, SmallUpload)
    \/ Workers
    \/ confirm.pc = "idle" /\ Routes
    \/ /\ jobState["j1"] = "completed"
       /\ \A s \in Sessions : getPc[s] = "idle"
       /\ PostConfirm("A")
    \/ \E i \in 1..MaxBatch : SettleInsert(i)
    \/ ResolveCreate
    \/ ConfirmResume
    \/ DelSettle

SpecSessions == Init /\ [][NextSessions]_vars

(***************************************************************************)
(* POST /api/upload: the parts of the request are saved to temp files as   *)
(* they arrive, the saves are awaited together, and one job that lists the *)
(* saved files is added to the queue.                                      *)
(***************************************************************************)
\* process.env.MAX_FILE_COUNT, which the handler reads as MAX_FILES and the
\* multipart plugin as its limit of files
MaxFileCount == 2
\* most parts of a request body, and the requests that are followed
MaxParts == 3
MaxRequests == 2

\* the parts a body is made of: a field, two files under the field name
\* files (one without a content type), a file without filename, a file
\* under another field name, and a file larger than MAX_FILE_SIZE_BYTES
FieldPart ==
    [type |-> "field", fieldname |-> "note", filename |-> "", mimetype |-> "", tooLarge |-> FALSE]
FileA ==
    [type |-> "file", fieldname |-> "files", filename |-> "a.png", mimetype |-> "image/png",
     tooLarge |-> FALSE]
FileB ==
    [type |-> "file", fieldname |-> "files", filename |-> "b.jpg", mimetype |-> "",
     tooLarge |-> FALSE]
FileNoName ==
    [type |-> "file", fieldname |-> "files", filename |-> "", mimetype |-> "image/png",
     tooLarge |-> FALSE]
FileAvatar ==
    [type |-> "file", fieldname |-> "avatar", filename |-> "c.png", mimetype |-> "image/png",
     tooLarge |-> FALSE]
FileLarge ==
    [type |-> "file", fieldname |-> "files", filename |-> "big.png", mimetype |-> "image/png",
     tooLarge |-> TRUE]
PartKinds == {FieldPart, FileA, FileB, FileNoName, FileAvatar, FileLarge}

\* the bodies of the first request, and those of a request that follows
Bodies == UNION {[1..n -> PartKinds] : n \in 0..MaxParts}
LaterBodies == {<<FileA>>, <<FileA, FileB>>}

\* the name of request number n, for the paths of its temp files
RequestName(n) == "r" \o ToString(n)

\* file parts among the first k parts
FilesSeen(parts, k) == Cardinality({i \in 1..k : parts[i].type = "file"})

\* every savePromise of the handler has settled
SavesSettled(u) == \A i \in DOMAIN u.fileInfos : u.fileInfos[i].save # "pending"

\* a filter that keeps every file, saved or not
EveryFile(fileInfos) == fileInfos
\* lines 148-159: the fileInfos whose save was fulfilled
SuccessfulSaves(fileInfos) == SelectSeq(fileInfos, LAMBDA f : f.save = "fulfilled")

\* lines 166-171: the data of the job
JobDataOf(successfulSaves) ==
    [tempFilePaths |-> [k \in DOMAIN successfulSaves |-> successfulSaves[k].tempFilePath],
     originalFilenames |-> [k \in DOMAIN successfulSaves |-> successfulSaves[k].originalFilename],
     mimeTypes |-> [k \in DOMAIN successfulSaves |->
                       IF successfulSaves[k].mimeType # "" THEN successfulSaves[k].mimeType
                       ELSE "application/octet-stream"]]

\* lines 105-109: no access token in the session, or an expired one
UploadUnauthorized ==
    /\ up.pc \in {"idle", "done"}
    /\ up.req < MaxRequests
    /\ SavesSettled(up)
    /\ up' = [NoUpload EXCEPT !.pc = "done", !.req = up.req + 1, !.status = 401,
                              !.added = up.added, !.unlinkCalls = up.unlinkCalls]
    /\ resp' = NoResp
    /\ UNCHANGED <<page, fmt, confirm, submit, fs, jobState, jobData, attemptsMade, backoff, run, trace,
                   store, since, lastWriter, getPc>>

\* lines 110-119: an authorised request enters the handler
BeginUpload ==
    /\ up.pc \in {"idle", "done"}
    /\ up.req < MaxRequests
    /\ SavesSettled(up)
    /\ \E parts \in IF up.req = 0 THEN Bodies ELSE LaterBodies, hasSessionId \in BOOLEAN :
          up' = [NoUpload EXCEPT !.pc = "parts", !.req = up.req + 1, !.parts = parts,
                                 !.hasSessionId = hasSessionId,
                                 !.added = up.added, !.unlinkCalls = up.unlinkCalls]
    /\ resp' = NoResp
    /\ UNCHANGED <<page, fmt, confirm, submit, fs, jobState, jobData, attemptsMade, backoff, run, trace,
                   store, since, lastWriter, getPc>>

\* lines 188-198: the catch block unlinks what tempFilesToClean lists (a
\* failing unlink is only logged: removed are the files whose unlink
\* succeeded) and throws the error on; the error handler answers with the
\* status of the error
UploadThrown(u, message, status, cleaned) ==
    [u EXCEPT !.pc = "done", !.threw = message, !.status = status,
              !.unlinkCalls = @ \cup cleaned]

\* lines 120-144, one turn of the for await: the iterator of
\* request.parts() throws for a file beyond the limit of files and after a
\* file beyond the limit of size; a file part named files with a filename
\* is piped to a new temp file; any other part is passed over; after the
\* last part the handler answers 400 when it took no file
NextPart ==
    /\ up.pc = "parts"
    /\ LET k == up.index
           cleaned == {up.tempFilesToClean[i] : i \in DOMAIN up.tempFilesToClean}
       IN IF k >= 1 /\ up.parts[k].tooLarge
          THEN /\ up' = UploadThrown(up, "FST_REQ_FILE_TOO_LARGE", 413, cleaned)
               /\ \E removed \in SUBSET cleaned : fs' = fs \ removed
          ELSE IF k = Len(up.parts)
          THEN /\ up' = IF up.fileInfos = <<>>
                        THEN [up EXCEPT !.pc = "done", !.status = 400]
                        ELSE [up EXCEPT !.pc = "settle"]
               /\ UNCHANGED fs
          ELSE IF up.parts[k + 1].type = "file" /\ FilesSeen(up.parts, k + 1) > MaxFileCount
          THEN /\ up' = UploadThrown(up, "FST_FILES_LIMIT", 413, cleaned)
               /\ \E removed \in SUBSET cleaned : fs' = fs \ removed
          ELSE LET part == up.parts[k + 1]
                   tempFilePath == TempPath(RequestName(up.req), Len(up.fileInfos) + 1)
               IN IF /\ part.type = "file"
                     /\ part.fieldname = "files"
                     /\ part.filename # ""
                     /\ up.filesProcessedCount < MaxFileCount
                  THEN /\ up' = [up EXCEPT
                              !.index = k + 1,
                              !.filesProcessedCount = @ + 1,
                              !.fileInfos = Append(@,
                                  [originalFilename |-> part.filename,
                                   tempFilePath |-> tempFilePath,
                                   mimeType |-> part.mimetype,
                                   save |-> "pending"])]
                       /\ fs' = fs \cup {tempFilePath}
                  ELSE /\ up' = [up EXCEPT !.index = k + 1]
                       /\ UNCHANGED fs
    /\ resp' = NoResp
    /\ UNCHANGED <<page, fmt, confirm, submit, jobState, jobData, attemptsMade, backoff, run, trace,
                   store, since, lastWriter, getPc>>

\* lines 131-136: the pipeline of a file settles; when it rejects, the
\* catch handler calls unlink for the partial file (a failing unlink is
\* only logged) and the savePromise is rejected
SaveSettle(i) ==
    /\ i \in DOMAIN up.fileInfos
    /\ up.fileInfos[i].save = "pending"
    /\ \/ /\ up' = [up EXCEPT !.fileInfos[i].save = "fulfilled"]
          /\ UNCHANGED fs
       \/ /\ up' = [up EXCEPT !.fileInfos[i].save = "rejected",
                              !.unlinkCalls = @ \cup {up.fileInfos[i].tempFilePath}]
          /\ \E unlinked \in BOOLEAN :
                fs' = IF unlinked THEN fs \ {up.fileInfos[i].tempFilePath} ELSE fs
    /\ resp' = NoResp
    /\ UNCHANGED <<page, fmt, confirm, submit, jobState, jobData, attemptsMade, backoff, run, trace,
                   store, since, lastWriter, getPc>>

\* lines 147-173: Promise.allSettled has resolved; the saved files are
\* listed for cleaning; without any, or without a session id, the handler
\* throws; else it calls aiProcessingQueue.add
SavesAwaited ==
    /\ up.pc = "settle"
    /\ SavesSettled(up)
    /\ LET successfulSaves == SuccessfulSaves(up.fileInfos)
           toClean == [k \in DOMAIN successfulSaves |-> successfulSaves[k].tempFilePath]
           cleaned == {toClean[k] : k \in DOMAIN toClean}
           u1 == [up EXCEPT !.tempFilesToClean = toClean]
       IN IF Len(successfulSaves) = 0
          THEN /\ up' = UploadThrown(u1, "Could not save any uploaded files locally.", 500, cleaned)
               /\ UNCHANGED fs
          ELSE IF ~up.hasSessionId
          THEN /\ up' = UploadThrown(u1, "Session ID not found, cannot process upload.", 500, cleaned)
               /\ \E removed \in SUBSET cleaned : fs' = fs \ removed
          ELSE /\ up' = [u1 EXCEPT !.pc = "enqueue", !.addCalls = @ + 1]
               /\ UNCHANGED fs
    /\ resp' = NoResp
    /\ UNCHANGED <<page, fmt, confirm, submit, jobState, jobData, attemptsMade, backoff, run, trace,
                   store, since, lastWriter, getPc>>

\* lines 174-185: aiProcessingQueue.add resolves: tempFilesToClean is
\* emptied and the request answered 200; or it rejects: the handler throws
QueueAdd ==
    /\ up.pc = "enqueue"
    /\ LET cleaned == {up.tempFilesToClean[i] : i \in DOMAIN up.tempFilesToClean}
       IN \/ /\ up' = [up EXCEPT
                         !.pc = "done", !.status = 200, !.tempFilesToClean = <<>>,
                         !.added = Append(@, [req |-> up.req,
                                              data |-> JobDataOf(SuccessfulSaves(up.fileInfos))])]
             /\ UNCHANGED fs
          \/ /\ up' = UploadThrown(up, "Failed to queue processing job", 500, cleaned)
             /\ \E removed \in SUBSET cleaned : fs' = fs \ removed
    /\ resp' = NoResp
    /\ UNCHANGED <<page, fmt, confirm, submit, jobState, jobData, attemptsMade, backoff, run, trace,
                   store, since, lastWriter, getPc>>

\* Upload requests, one after the other, each with the saves of its files.
NextUpload ==
    \/ UploadUnauthorized
    \/ BeginUpload
    \/ NextPart
    \/ \E i \in 1..MaxFileCount : SaveSettle(i)
    \/ SavesAwaited
    \/ QueueAdd

SpecUpload == Init /\ [][NextUpload]_vars

(***************************************************************************)
(* The preview page of the client: its effect calls fetchPreviewData at    *)
(* once and then from an interval timer, until a response, or the timeout  *)
(* timer, clears both timers.                                              *)
(***************************************************************************)
POLLING_INTERVAL_MS == 1500
POLLING_TIMEOUT_MS == 30000

\* how a call of fetchPreviewData can end: 200 with a preview, 200 with a
\* body without one, 404, 401, another status, or fetch rejecting
PollOutcomes == {"ok", "okInvalid", "notFound", "unauthorized", "serverError", "networkError"}

\* lines 48-53: clearTimers
clearTimers(p) == [p EXCEPT !.interval = FALSE, !.timeout = FALSE]

\* lines 55-144: fetchPreviewData from the response on
fetchPreviewData(p, outcome) ==
    CASE outcome = "ok" ->
            clearTimers([p EXCEPT !.hasScheduleData = TRUE, !.isLoading = FALSE,
                                  !.fetchError = ""])
      [] outcome = "notFound" ->
            IF ~p.closedOverIsLoading THEN [p EXCEPT !.isLoading = TRUE] ELSE p
      [] outcome = "unauthorized" ->
            [clearTimers(p) EXCEPT !.navigated = TRUE, !.isLoading = FALSE]
      [] outcome = "serverError" ->
            clearTimers([p EXCEPT !.fetchError = "serverError", !.isLoading = FALSE])
      [] OTHER ->
            \* the catch block: the body had no preview, or fetch rejected
            clearTimers([p EXCEPT !.fetchError = outcome, !.isLoading = FALSE])

\* lines 157-165: the callback of the timeout timer
OnTimeout(p) ==
    IF p.closedOverIsLoading
    THEN clearTimers([p EXCEPT !.fetchError = "timedOut", !.isLoading = FALSE,
                               !.timedOut = TRUE])
    ELSE p

\* the interval timer calls fetchPreviewData: a request is sent
StartPoll(p) == [p EXCEPT !.polls = @ + 1, !.inflight = @ + 1]

\* lines 146-166: the page is mounted and its effect runs: the state is
\* reset, fetchPreviewData is called and both timers are set
MountPage ==
    /\ page.pc = "unmounted"
    /\ page' = StartPoll([NoPage EXCEPT !.pc = "mounted", !.interval = TRUE, !.timeout = TRUE])
    /\ resp' = NoResp
    /\ UNCHANGED <<up, fmt, confirm, submit, fs, jobState, jobData, attemptsMade, backoff, run,
                   trace, store, since, lastWriter, getPc>>

\* POLLING_INTERVAL_MS pass: the interval timer fires if it is set, and
\* when POLLING_TIMEOUT_MS have passed so does the timeout timer if it is
\* set, before or after the interval timer due at the same time
TimePasses ==
    /\ page.pc = "mounted"
    /\ page.now < POLLING_TIMEOUT_MS
    /\ LET p == [page EXCEPT !.now = @ + POLLING_INTERVAL_MS]
           polled == IF p.interval THEN StartPoll(p) ELSE p
       IN IF p.now >= POLLING_TIMEOUT_MS /\ p.timeout
          THEN \/ page' = OnTimeout(polled)
               \/ page' = OnTimeout(p)
          ELSE page' = polled
    /\ resp' = NoResp
    /\ UNCHANGED <<up, fmt, confirm, submit, fs, jobState, jobData, attemptsMade, backoff, run,
                   trace, store, since, lastWriter, getPc>>

\* a call of fetchPreviewData gets its response, or fetch rejects; the
\* calls in flight end in any order.  After navigate('/login') the page is
\* gone and what its calls set is not shown.
PollReturns ==
    /\ page.pc = "mounted"
    /\ ~page.navigated
    /\ page.inflight > 0
    /\ \E outcome \in PollOutcomes :
          page' = [fetchPreviewData(page, outcome) EXCEPT
                      !.inflight = @ - 1, !.handled = @ + 1, !.last = outcome]
    /\ resp' = NoResp
    /\ UNCHANGED <<up, fmt, confirm, submit, fs, jobState, jobData, attemptsMade, backoff, run,
                   trace, store, since, lastWriter, getPc>>

\* The preview page from its mount on, with responses of every kind.
NextPage ==
    \/ MountPage
    \/ TimePasses
    \/ PollReturns

SpecPage == Init /\ [][NextPage]_vars

\* The same, with timers that fire when they are due.
FairPage == SpecPage /\ WF_vars(TimePasses)

TypeOK ==
    /\ \A j \in JobIds : jobState[j] \in {"none", "waiting", "active", "delayed", "completed", "failed"}
    /\ \A j \in JobIds : attemptsMade[j] \in 0..JOB_DEFAULT_ATTEMPTS

(***************************************************************************)
(* Properties of processAiJob.  They speak of one call (one attempt of a   *)
(* job) through its trace, which Activate resets.                          *)
(***************************************************************************)
\* the call of job j has returned or thrown
Ended(j) == trace[j].result # "none"

\* the loop of the call has gone through every file of the job
LoopOver(j) ==
    /\ jobState[j] # "none"
    /\ Len(trace[j].files) = Len(jobData[j].tempFilePaths)
    /\ run[j].pc \in {"assemble", "set", "done"}

FilesOfKind(j, kinds) == {k \in DOMAIN trace[j].files : trace[j].files[k].kind \in kinds}

\* at least two files, one that threw and one that did not
PartialJob(j) ==
    /\ LoopOver(j)
    /\ Len(trace[j].files) >= 2
    /\ FilesOfKind(j, {"threw"}) # {}
    /\ FilesOfKind(j, {"usable", "unusable"}) # {}

\* at least one file, and every file threw
AllThrew(j) ==
    /\ LoopOver(j)
    /\ Len(trace[j].files) >= 1
    /\ FilesOfKind(j, {"threw"}) = DOMAIN trace[j].files

\* the valid events of the files that did not throw, in file order, each
\* with the keys the schema knows
RECURSIVE EventsOfFiles(_)
EventsOfFiles(files) ==
    IF files = <<>>
    THEN <<>>
    ELSE LET f == Head(files)
             valid == IF f.kind = "usable"
                      THEN SelectSeq(f.ret.scheduleEvents, scheduleEventSchema)
                      ELSE <<>>
         IN [k \in 1..Len(valid) |-> StripEvent(valid[k])] \o EventsOfFiles(Tail(files))

\* the names of the files that threw or returned unusable output, in order
RECURSIVE NamesOfFailed(_, _)
NamesOfFailed(files, names) ==
    IF files = <<>>
    THEN <<>>
    ELSE (IF Head(files).kind = "usable" THEN <<>> ELSE <<Head(names)>>)
         \o NamesOfFailed(Tail(files), Tail(names))

\* the preview the call hands to the store holds exactly the valid events of
\* the files that did not throw; processingErrors names, in order, the
\* files without usable output; each file that threw has its one entry, with
\* the message it threw
PreviewOfPartialJob(j) ==
    LET doc == run[j].payload.doc
        errs == doc.processingErrors
    IN /\ run[j].payload.json
       /\ doc.scheduleData.scheduleEvents = EventsOfFiles(trace[j].files)
       /\ \A k \in DOMAIN doc.scheduleData.scheduleEvents :
             scheduleEventSchema(doc.scheduleData.scheduleEvents[k])
       /\ [k \in DOMAIN errs |-> errs[k].filename]
             = NamesOfFailed(trace[j].files, jobData[j].originalFilenames)
       /\ Cardinality({k \in DOMAIN errs : errs[k].error \in ReadErrors \cup AiErrors})
             = Cardinality(FilesOfKind(j, {"threw"}))

\* C1 as stated: a job of at least two files, of which at least one throws
\* and at least one is processed without throwing, completes, and writes
\* exactly one preview, made of the valid events of the files that did not
\* throw and with one processing error per throwing file.
C1_PartialSuccessAsStated ==
    \A j \in JobIds :
        (PartialJob(j) /\ Ended(j)) =>
            /\ trace[j].result = "resolved"
            /\ trace[j].sets = 1
            /\ PreviewOfPartialJob(j)

\* C1, amended: such a job issues exactly one store write, of the preview
\* made of the valid events of the files that did not throw and with one
\* processing error per throwing file; it completes when that write
\* succeeds, and fails only when the write is rejected.
C1_PartialSuccess ==
    \A j \in JobIds :
        (PartialJob(j) /\ Ended(j)) =>
            /\ trace[j].sets = 1
            /\ PreviewOfPartialJob(j)
            /\ (trace[j].result = "resolved") = ~trace[j].setFailed
            /\ trace[j].result = "resolved" =>
                  /\ jobState[j] = "completed"
                  /\ lastWriter[jobData[j].sessionId] = j

\* a job of two files has completed: one file threw, the other gave a valid
\* and an invalid event, and the preview holds the valid one
C1_Witness ==
    \E j \in JobIds :
        /\ PartialJob(j)
        /\ trace[j].result = "resolved"
        /\ \E k \in DOMAIN trace[j].files : trace[j].files[k].ret = RetA
        /\ Len(run[j].payload.doc.scheduleData.scheduleEvents) = 1
        /\ Len(run[j].payload.doc.processingErrors) = 1

\* C2: when every file of a job throws, the call rejects and has issued no
\* store write; no step of the call other than a store write changes the
\* store, so the session's entry is as it was.
C2_TotalFailure ==
    /\ [](\A j \in JobIds :
            (AllThrew(j) /\ run[j].pc # "assemble") =>
                /\ trace[j].result = "rejected"
                /\ trace[j].sets = 0
                /\ jobState[j] # "completed")
    /\ [][\A j \in JobIds :
            (trace'[j] # trace[j] /\ trace'[j].sets = trace[j].sets) => store' = store]_vars

\* every file of a job of two files threw and the call has rejected
C2_Witness ==
    \E j \in JobIds :
        /\ AllThrew(j)
        /\ Len(trace[j].files) = 2
        /\ trace[j].result = "rejected"
        /\ trace[j].sets = 0

\* every file of the job threw or returned output without a usable
\* scheduleEvents array
AllFailedOrUnusable(j) ==
    /\ LoopOver(j)
    /\ Len(trace[j].files) >= 1
    /\ FilesOfKind(j, {"threw", "unusable"}) = DOMAIN trace[j].files

\* C3 as stated: a file without a usable scheduleEvents array is recorded as
\* a processing error and gives no events, and when every file of a job
\* throws or returns such output the job fails and no preview is written.
C3_UnusableOutputIsFailure ==
    \A j \in JobIds :
        /\ LoopOver(j) =>
              /\ Len(run[j].fileProcessingErrors) = Cardinality(FilesOfKind(j, {"threw", "unusable"}))
              /\ ParsedScheduleData(CombinedScheduleData(run[j])).scheduleEvents
                    = EventsOfFiles(trace[j].files)
        /\ (AllFailedOrUnusable(j) /\ Ended(j)) =>
              /\ trace[j].result = "rejected"
              /\ trace[j].sets = 0
              /\ lastWriter[jobData[j].sessionId] # j

\* C4: when the store write is rejected the call rejects, the job is not
\* completed by that attempt (it is delayed for a retry, or failed), and the
\* step leaves the store as it was.
C4_StoreWriteFails ==
    /\ [](\A j \in JobIds :
            trace[j].setFailed =>
                /\ trace[j].result = "rejected"
                /\ jobState[j] \in {"delayed", "waiting", "failed"})
    /\ [][\A j \in JobIds :
            (~trace[j].setFailed /\ trace'[j].setFailed) =>
                (store' = store /\ lastWriter' = lastWriter)]_vars

\* the write of a job whose extraction succeeded was rejected: the job
\* waits for its retry and the session has no preview
C4_Witness ==
    \E j \in JobIds :
        /\ trace[j].setFailed
        /\ FilesOfKind(j, {"usable"}) # {}
        /\ jobState[j] = "delayed"
        /\ ~store[jobData[j].sessionId].present

\* how often, and where first, a call appears in the order of calls
Count(ops, op) == Cardinality({p \in DOMAIN ops : ops[p] = op})
Pos(ops, op) == CHOOSE p \in DOMAIN ops : ops[p] = op
Before(ops, a, b) == Count(ops, a) >= 1 /\ Count(ops, b) >= 1 /\ Pos(ops, a) < Pos(ops, b)

\* C5: in one call, each file is read once and unlinked once, the unlink
\* after the file's read and extraction and before the next file's read, on
\* every path; after the loop every file has been read and unlinked; and
\* whether the call rejects depends on the files' outcomes and on the store
\* write alone, not on a failed unlink.
C5_CleanupFinally ==
    \A j \in JobIds :
        LET ops == trace[j].ops
            n == Len(jobData[j].tempFilePaths)
            afterLoop == run[j].pc \in {"assemble", "set", "done"}
        IN /\ \A k \in 1..n :
                 /\ Count(ops, <<"read", k>>) <= 1
                 /\ Count(ops, <<"unlink", k>>) <= 1
                 /\ Count(ops, <<"unlink", k>>) = 1 =>
                       /\ Before(ops, <<"read", k>>, <<"unlink", k>>)
                       /\ Count(ops, <<"extract", k>>) = 1 =>
                             Before(ops, <<"extract", k>>, <<"unlink", k>>)
                 /\ (k < n /\ Count(ops, <<"read", k + 1>>) = 1) =>
                       Before(ops, <<"unlink", k>>, <<"read", k + 1>>)
                 /\ afterLoop =>
                       /\ Count(ops, <<"read", k>>) = 1
                       /\ Count(ops, <<"unlink", k>>) = 1
           /\ afterLoop => Len(trace[j].files) = n
           /\ Ended(j) =>
                 (trace[j].result = "rejected") =
                     (FilesOfKind(j, {"threw"}) = DOMAIN trace[j].files \/ trace[j].setFailed)

\* a call over two files has completed although an unlink failed; one of
\* the files could not be read, the other was extracted
C5_Witness ==
    \E j \in JobIds :
        /\ Len(jobData[j].tempFilePaths) = 2
        /\ trace[j].unlinkFailed
        /\ trace[j].result = "resolved"
        /\ \E k \in 1..2 :
              /\ Count(trace[j].ops, <<"extract", k>>) = 0
              /\ Count(trace[j].ops, <<"unlink", k>>) = 1
              /\ Count(trace[j].ops, <<"extract", 3 - k>>) = 1

(***************************************************************************)
(* Properties of the queue.                                                *)
(***************************************************************************)
\* the moves of a job between the states of the queue
JobMoves ==
    {<<"none", "waiting">>, <<"waiting", "active">>, <<"active", "completed">>,
     <<"active", "delayed">>, <<"active", "failed">>, <<"delayed", "waiting">>}

\* C6: a job goes from queued to active and from there to completed or
\* failed; a failed attempt is queued again after a delay of 5000 ms that
\* doubles with each attempt, until the job has run JOB_DEFAULT_ATTEMPTS
\* times, when it fails for good; a job never runs more often than that, and
\* every queued job ends completed or failed for good.
C6_JobLifecycle ==
    /\ [][\A j \in JobIds :
            /\ jobState'[j] # jobState[j] => <<jobState[j], jobState'[j]>> \in JobMoves
            /\ attemptsMade'[j] # attemptsMade[j] =>
                  /\ jobState[j] = "waiting" /\ jobState'[j] = "active"
                  /\ attemptsMade'[j] = attemptsMade[j] + 1
            /\ (jobState[j] = "waiting" /\ jobState'[j] = "active") =>
                  attemptsMade'[j] = attemptsMade[j] + 1]_vars
    /\ [](\A j \in JobIds :
            /\ attemptsMade[j] <= JOB_DEFAULT_ATTEMPTS
            /\ jobState[j] = "failed" => attemptsMade[j] = JOB_DEFAULT_ATTEMPTS
            /\ jobState[j] = "delayed" =>
                  /\ attemptsMade[j] \in 1..(JOB_DEFAULT_ATTEMPTS - 1)
                  /\ attemptsMade[j] = 1 => backoff[j] = JOB_BACKOFF_DELAY_MS
                  /\ attemptsMade[j] = 2 => backoff[j] = 2 * JOB_BACKOFF_DELAY_MS)
    /\ \A j \in JobIds :
            (jobState[j] = "waiting") ~> (jobState[j] \in {"completed", "failed"})

\* a job has failed for good after its last attempt
C6_Witness ==
    \E j \in JobIds :
        /\ jobState[j] = "failed"
        /\ attemptsMade[j] = JOB_DEFAULT_ATTEMPTS
        /\ trace[j].result = "rejected"

(***************************************************************************)
(* Properties of the preview store.                                        *)
(***************************************************************************)
\* C7: under any interleaving of the jobs of a session and their retries,
\* the session's entry, when there is one, is the whole PreviewResult of the
\* job whose write succeeded last: the value that job handed to the store,
\* made of that job's files alone.
C7_LastWriterWins ==
    \A s \in Sessions :
        store[s].present =>
            /\ lastWriter[s] \in JobIds
            /\ LET j == lastWriter[s]
                   doc == store[s].value.doc
               IN /\ jobData[j].sessionId = s
                  /\ trace[j].result = "resolved"
                  /\ store[s].value = run[j].payload
                  /\ store[s].value.json
                  /\ doc.scheduleData.scheduleEvents = EventsOfFiles(trace[j].files)
                  /\ [k \in DOMAIN doc.processingErrors |-> doc.processingErrors[k].filename]
                        = NamesOfFailed(trace[j].files, jobData[j].originalFilenames)

\* two jobs of one session have completed with different previews; the
\* entry is that of the job that wrote last, here the first one queued
C7_Witness ==
    /\ jobState["j1"] = "completed"
    /\ jobState["j2"] = "completed"
    /\ jobData["j1"].sessionId = jobData["j2"].sessionId
    /\ run["j1"].payload # run["j2"].payload
    /\ Len(run["j2"].payload.doc.scheduleData.scheduleEvents) >= 1
    /\ lastWriter["A"] = "j1"
    /\ store["A"].present

\* C8: an entry expires PREVIEW_TTL seconds after the last successful write
\* of its session: every successful write leaves the entry with the full
\* PREVIEW_TTL, whatever remained before; an answered GET leaves the entry
\* and its remaining time as they were; and PREVIEW_TTL seconds after the
\* last write the entry is absent.
C8_ExpiryFromLastWrite ==
    /\ [](\A s \in Sessions :
            /\ store[s].present =>
                  (since[s] < PREVIEW_TTL /\ store[s].ttl = PREVIEW_TTL - since[s])
            /\ since[s] >= PREVIEW_TTL => ~store[s].present)
    /\ [][\A j \in JobIds :
            (jobState[j] = "active" /\ jobState'[j] = "completed") =>
                LET s == jobData[j].sessionId
                IN store'[s].present /\ store'[s].ttl = PREVIEW_TTL /\ since'[s] = 0]_vars
    /\ [][resp'.op = "GET" => store' = store]_vars

\* the second write of a session has succeeded, time has passed since, and
\* a GET has just answered with the preview: the remaining time is what is
\* left of PREVIEW_TTL since that write
C8_Witness ==
    /\ jobState["j1"] = "completed"
    /\ jobState["j2"] = "completed"
    /\ resp.op = "GET"
    /\ resp.status = 200
    /\ store[resp.session].present
    /\ store[resp.session].ttl = PREVIEW_TTL - TickSec
    /\ since[resp.session] = TickSec

(***************************************************************************)
(* Properties of GET /api/preview.  A request of a session either answers  *)
(* in the step that reads the store, or goes on to delete a corrupted      *)
(* entry and answers then.                                                 *)
(***************************************************************************)
\* the stored string parses and passes the PreviewResult schema
ValidEntry(entry) == entry.present /\ entry.value.json /\ previewResultSchema(entry.value.doc)

C12_DeleteIdempotent ==
    [][\A s \in Sessions :
        (resp'.op = "DELETE" /\ resp'.session = s) =>
            /\ resp'.status = 204
            /\ resp'.delOk => ~store'[s].present
            /\ ~resp'.delOk => store' = store
            /\ ~store[s].present => store' = store
            /\ \A t \in Sessions \ {s} : store'[t] = store[t]]_vars

\* a DELETE has answered 204 for a key that a job had written and that is
\* now absent
C12_Witness ==
    /\ resp.op = "DELETE"
    /\ resp.status = 204
    /\ resp.delOk
    /\ lastWriter[resp.session] \in JobIds
    /\ since[resp.session] < PREVIEW_TTL
    /\ ~store[resp.session].present

\* C13: a cancel (the DELETE route) leaves every job as it is; a job that
\* is active goes on to its end; a job that completes writes its preview
\* whatever was deleted before, a GET that reads that entry answers with it,
\* and the entry goes away only by a delete or by expiry, and changes only
\* by the write of a completing job.
C13_CancelDoesNotStopJob ==
    /\ [][resp'.op = "DELETE" =>
            UNCHANGED <<page, up, jobState, jobData, attemptsMade, backoff, run, trace, fs>>]_vars
    /\ [][\A j \in JobIds :
            (jobState[j] = "active" /\ jobState'[j] = "completed") =>
                LET s == jobData[j].sessionId
                IN /\ store'[s].present
                   /\ store'[s].value = run[j].payload
                   /\ lastWriter'[s] = j]_vars
    /\ [][\A s \in Sessions :
            /\ (resp'.op = "GET" /\ resp'.session = s /\ resp'.status = 200) =>
                  resp'.previewResult = store[s].value.doc
            /\ (store[s].present /\ ~store'[s].present) =>
                  \/ resp'.op = "DELETE" /\ resp'.session = s /\ resp'.delOk
                  \/ since'[s] >= PREVIEW_TTL /\ since[s] < PREVIEW_TTL
            /\ (store[s].present /\ store'[s].present /\ store'[s].value # store[s].value) =>
                  \E j \in JobIds : jobState[j] = "active" /\ jobState'[j] = "completed"]_vars
    /\ \A j \in JobIds : (jobState[j] = "active") ~> (jobState[j] # "active")

\* a cancel has just answered while the session's job is active and about
\* to write its preview
C13_Witness ==
    /\ resp.op = "DELETE"
    /\ resp.status = 204
    /\ resp.delOk
    /\ \E j \in JobIds :
          /\ jobData[j].sessionId = resp.session
          /\ jobState[j] = "active"
          /\ run[j].pc = "set"

(***************************************************************************)
(* Properties of createCalendarEvents.                                     *)
(***************************************************************************)
\* the descriptors of the call whose insert was fulfilled, was rejected
Fulfilled == {i \in DOMAIN submit.st : submit.st[i] = "fulfilled"}
Rejected == {i \in DOMAIN submit.st : submit.st[i] = "rejected"}

\* the k-th rejected descriptor in input order
RejectedIndex(k) ==
    CHOOSE i \in Rejected : Cardinality({m \in Rejected : m <= i}) = k

\* C17: whatever the batch and whatever the outcome of each insert, the
\* call resolves with successCount + errors.length = K, successCount the
\* number of fulfilled inserts and one error entry per rejected insert; a
\* call that has started its inserts never rejects.
C17_SubmissionCompleteness ==
    /\ [](submit.pc = "resolved" =>
            /\ submit.result.successCount + Len(submit.result.errors) = Len(submit.events)
            /\ submit.result.successCount = Cardinality(Fulfilled)
            /\ Len(submit.result.errors) = Cardinality(Rejected))
    /\ [](submit.pc = "rejected" => submit.calls = <<>> /\ ~pLimitAccepts(submit.concurrency))
    /\ [][submit.pc = "running" => submit'.pc \in {"running", "resolved"}]_vars

\* a call with four descriptors or more has resolved after some inserts
\* were fulfilled and some rejected
C17_Witness ==
    /\ submit.pc = "resolved"
    /\ Len(submit.events) >= 4
    /\ submit.result.successCount >= 2
    /\ Len(submit.result.errors) >= 2

\* C18: calendar.events.insert is called at most once per descriptor and
\* exactly once for every descriptor of a call that has resolved, by which
\* time every insert has settled; when every insert call settles, every
\* descriptor of a running call is eventually attempted, whatever happened
\* to the inserts before it, and the call resolves.
C18_EveryDescriptorAttemptedOnce ==
    /\ [](\A i \in DOMAIN submit.calls :
            /\ submit.calls[i] <= 1
            /\ submit.calls[i] = 1 <=> submit.st[i] \in {"inflight", "fulfilled", "rejected"})
    /\ [](submit.pc = "resolved" =>
            \A i \in 1..Len(submit.events) :
                submit.calls[i] = 1 /\ submit.st[i] \in {"fulfilled", "rejected"})
    /\ (submit.pc = "running")
          ~> (submit.pc = "resolved" /\ \A i \in 1..Len(submit.events) : submit.calls[i] = 1)

\* with a concurrency of 2 the first insert was rejected, and the third
\* descriptor, queued until then, has been attempted
C18_Witness ==
    /\ submit.pc = "running"
    /\ submit.concurrency = 2
    /\ Len(submit.events) >= 3
    /\ submit.st[1] = "rejected"
    /\ submit.st[2] = "inflight"
    /\ submit.st[3] = "inflight"
    /\ submit.calls[3] = 1

MessageOf(error) ==
    IF error.bodyMessage # Undef THEN error.bodyMessage
    ELSE IF error.message # Undef THEN error.message
    ELSE S("Unknown error during event insertion")

\* C20 as stated: every error entry carries the summary of the descriptor
\* whose insert was rejected, the provider's message with its fallbacks and
\* the provider's status, and the entries are in input order.
C20_ErrorEntriesAsStated ==
    submit.pc = "resolved" =>
        /\ Len(submit.result.errors) = Cardinality(Rejected)
        /\ \A k \in 1..Len(submit.result.errors) :
              LET i == RejectedIndex(k)
                  entry == submit.result.errors[k]
              IN /\ entry.eventSummary = submit.events[i].summary
                 /\ entry.error = MessageOf(submit.outcome[i])
                 /\ entry.status = submit.outcome[i].status

\* C20: every error entry carries the summary of the descriptor whose
\* insert was rejected, or the text Event <index> (counted from 0) when that
\* summary is empty, the provider's message with its fallbacks and the
\* provider's status, absent when there was none; the entries are in input
\* order.
C20_ErrorEntries ==
    submit.pc = "resolved" =>
        /\ Len(submit.result.errors) = Cardinality(Rejected)
        /\ \A k \in 1..Len(submit.result.errors) :
              LET i == RejectedIndex(k)
                  entry == submit.result.errors[k]
              IN /\ entry.eventSummary =
                        IF submit.events[i].summary # <<>> THEN submit.events[i].summary
                        ELSE EventN(i)
                 /\ entry.error = MessageOf(submit.outcome[i])
                 /\ entry.status = submit.outcome[i].status

\* a call has resolved with three entries: the descriptor with the empty
\* summary, one rejected with a message in the answer's body and one
\* rejected without any message
C20_Witness ==
    /\ submit.pc = "resolved"
    /\ Len(submit.result.errors) >= 3
    /\ \E i \in Rejected : submit.events[i].summary = <<>>
    /\ \E i \in Rejected : submit.outcome[i] = ErrConflict
    /\ \E i \in Rejected : submit.outcome[i] = ErrBare
    /\ Fulfilled # {}

(***************************************************************************)
(* Properties of the confirm handler.                                      *)
(***************************************************************************)
\* the confirm request came with a valid session and has been answered
Answered == confirm.pc = "replied" /\ confirm.session \in Sessions

\* the request got past formatting: its body passed the schema and the
\* formatter returned
PastFormatting ==
    /\ confirm.session \in Sessions
    /\ createCalendarBodySchema(confirm.body)
    /\ confirm.formatterCalls = 1
    /\ confirm.formatterThrew = Undef

\* C14: a confirm request that got past formatting has issued exactly one
\* delete of its session's preview key when it is answered, whatever the
\* submission did (all created, some failed, the call threw, nothing to
\* submit); the delete is issued in the step that follows the submission,
\* never while the submission is awaited, and it removes that key only.
C14_OneDeleteAfterSubmission ==
    /\ []((Answered /\ PastFormatting) => confirm.delIssued = 1)
    /\ [](confirm.delIssued <= 1)
    /\ [](confirm.pc = "submitting" => confirm.delIssued = 0)
    /\ [][confirm'.delIssued # confirm.delIssued =>
            /\ confirm'.pc = "replied"
            /\ \/ confirm.pc = "submitting" /\ submit.pc \in {"resolved", "rejected"}
               \/ confirm.pc = "idle" /\ confirm'.googleEvents = <<>> /\ confirm'.submitterCalls = 0]_vars
    /\ [][(confirm.del = "pending" /\ confirm'.del = "done") =>
            /\ ~store'[confirm.session].present
            /\ \A t \in Sessions \ {confirm.session} : store'[t] = store[t]]_vars

\* a request whose submission created one series and failed for the other
\* has been answered, and its one delete has removed the stored preview
C14_Witness ==
    /\ Answered
    /\ PastFormatting
    /\ confirm.creationResult.successCount = 1
    /\ Len(confirm.creationResult.errors) = 1
    /\ confirm.delIssued = 1
    /\ confirm.del = "done"
    /\ lastWriter[confirm.session] \in JobIds
    /\ ~store[confirm.session].present

\* C15: a confirm request of a valid session whose body passed the schema
\* has issued the delete of the session's preview by the time it is
\* answered, also when the formatter rejected it.
C15_EvictsRegardlessOfOutcome ==
    (/\ Answered
     /\ createCalendarBodySchema(confirm.body)
     /\ store[confirm.session].present)
        => confirm.delIssued >= 1

\* the names of scheduleEventSchema's fields
EventFields == {"courseCode", "courseName", "sectionDetails", "days", "startTime", "endTime", "location"}

\* the details of a 400 name exactly the fields of the body that fail
DetailsNameFailingFields(body, issues) ==
    LET paths == {issues[k].path : k \in 1..Len(issues)}
    IN /\ issues # <<>>
       /\ S("termStartDate") \in paths <=> ~dateStringSchema(body.termStartDate)
       /\ S("termEndDate") \in paths <=> ~dateStringSchema(body.termEndDate)
       /\ S("userTimeZone") \in paths <=>
             (~IsStr(body.userTimeZone) \/ Len(body.userTimeZone) < 3 \/ ~IsTimeZone(body.userTimeZone))
       /\ \A k \in 1..Len(body.scheduleEvents) :
             (\E field \in EventFields : EventPath(k, field) \in paths)
                <=> ~scheduleEventSchema(body.scheduleEvents[k])
       /\ \A k \in 1..Len(issues) : IsStr(issues[k].message) /\ issues[k].message # <<>>

\* C16: a confirm request of a valid session whose body fails the schema
\* is answered 400 'Validation Error' with details that name the failing
\* fields, in one step that calls neither the formatter nor the submitter,
\* issues no delete and leaves the store as it is.
C16_InvalidBodyHasNoEffect ==
    /\ [][(confirm.pc = "idle" /\ confirm'.pc = "replied" /\ confirm'.session \in Sessions
             /\ ~createCalendarBodySchema(confirm'.body)) =>
            /\ confirm'.reply.status = 400
            /\ confirm'.reply.error = S("Validation Error")
            /\ ~confirm'.reply.success
            /\ DetailsNameFailingFields(confirm'.body, confirm'.reply.issues)
            /\ UNCHANGED <<page, up, store, since, submit, jobState, run, fs>>]_vars
    /\ []((Answered /\ ~createCalendarBodySchema(confirm.body)) =>
            /\ confirm.formatterCalls = 0
            /\ confirm.submitterCalls = 0
            /\ confirm.delIssued = 0
            /\ confirm.del = "none"
            /\ submit = NoSubmit)

\* a request with a malformed term date and an event whose course code is
\* a number has been answered 400 while the session's preview is stored
C16_Witness ==
    /\ Answered
    /\ confirm.reply.status = 400
    /\ confirm.reply.error = S("Validation Error")
    /\ Len(confirm.reply.issues) >= 2
    /\ store[confirm.session].present
    /\ lastWriter[confirm.session] \in JobIds

(***************************************************************************)
(* Properties of the merge of a job's files.                               *)
(***************************************************************************)
\* the value of a term-date field in the first of the files, in their order, that returned a usable events
\* array and a string of the shape YYYY-MM-DD for it; null without one
RECURSIVE FirstWellFormed(_, _)
FirstWellFormed(files, field) ==
    IF files = <<>> THEN Null
    ELSE IF /\ Head(files).kind = "usable"
            /\ IsStr(Head(files).ret[field])
            /\ DateRe(Head(files).ret[field])
         THEN Head(files).ret[field]
         ELSE FirstWellFormed(Tail(files), field)

StartOf == "termStartDate"
EndOf == "termEndDate"

\* C29: at every point of a call of processAiJob each merged term date is
\* the value of the first file so far, in job order, that returned a
\* usable events array and a well-formed string for that field, and null
\* when there is none; once set it is not changed by a later file; the
\* stored preview carries these values.
C29_TermDatesFirstWriterWins ==
    /\ [](\A j \in JobIds :
            (jobState[j] = "active" /\ run[j].pc # "idle") =>
                /\ run[j].termStartDate = FirstWellFormed(trace[j].files, StartOf)
                /\ run[j].termEndDate = FirstWellFormed(trace[j].files, EndOf)
                /\ run[j].pc \in {"set", "done"} =>
                      /\ run[j].payload.doc.scheduleData.termStartDate = run[j].termStartDate
                      /\ run[j].payload.doc.scheduleData.termEndDate = run[j].termEndDate)
    /\ [][\A j \in JobIds :
            (jobState[j] = "active" /\ jobState'[j] = "active" /\ attemptsMade'[j] = attemptsMade[j]) =>
                /\ run[j].termStartDate # Null => run'[j].termStartDate = run[j].termStartDate
                /\ run[j].termEndDate # Null => run'[j].termEndDate = run[j].termEndDate]_vars

\* two files that both name well-formed, different term dates: the merged
\* dates are those of the first
C29_Witness ==
    \E j \in JobIds :
        /\ LoopOver(j)
        /\ Len(trace[j].files) = 2
        /\ trace[j].files[1].ret = RetC
        /\ trace[j].files[2].ret \in {RetA, RetB}
        /\ run[j].termStartDate = D20241210
        /\ run[j].termEndDate = D20240902

\* the files of a call in the order perm, as the loop would meet them
Permuted(files, perm) == [k \in 1..Len(files) |-> files[perm[k]]]

\* lines 41-127 applied to the files in a given order: the locals after
\* the loop
RECURSIVE MergeFiles(_, _)
MergeFiles(files, n) ==
    IF n = 0 THEN InitRun
    ELSE LET before == MergeFiles(files, n - 1)
         IN IF files[n].kind = "threw"
            THEN CatchFile(before, S("file"), S("error"))
            ELSE FoldFile(before, S("file"), files[n].ret)

CountIn(seq, e) == Cardinality({k \in DOMAIN seq : seq[k] = e})
Range(seq) == {seq[k] : k \in DOMAIN seq}
SameMultiset(a, b) ==
    /\ Len(a) = Len(b)
    /\ \A e \in Range(a) \cup Range(b) : CountIn(a, e) = CountIn(b, e)

\* the well-formed values the usable files of a call name for a field
WellFormedValues(files, field) ==
    {files[k].ret[field] : k \in {m \in DOMAIN files :
        files[m].kind = "usable" /\ IsStr(files[m].ret[field]) /\ DateRe(files[m].ret[field])}}

\* C30: had the files of a call come in any other order with the same
\* results, the merge would hold the same multiset of events; each term
\* date would be the value of the first file, in that order, with a
\* well-formed one, so the dates are the same unless two files name
\* different well-formed values.
C30_MergeCommutes ==
    \A j \in JobIds :
        LoopOver(j) =>
            \A perm \in Permutations(1..Len(trace[j].files)) :
                LET files == trace[j].files
                    other == MergeFiles(Permuted(files, perm), Len(files))
                IN /\ SameMultiset(other.allScheduleEvents, run[j].allScheduleEvents)
                   /\ other.termStartDate = FirstWellFormed(Permuted(files, perm), StartOf)
                   /\ other.termEndDate = FirstWellFormed(Permuted(files, perm), EndOf)
                   /\ Cardinality(WellFormedValues(files, StartOf)) <= 1 =>
                         other.termStartDate = run[j].termStartDate
                   /\ Cardinality(WellFormedValues(files, EndOf)) <= 1 =>
                         other.termEndDate = run[j].termEndDate
                   /\ other.filesProcessedSuccessfully = run[j].filesProcessedSuccessfully

\* two files with different events and different well-formed end dates:
\* the other order has the same events and another end date
C30_Witness ==
    \E j \in JobIds :
        /\ LoopOver(j)
        /\ Len(trace[j].files) = 2
        /\ trace[j].files[1].ret = RetB
        /\ trace[j].files[2].ret = RetC
        /\ Len(run[j].allScheduleEvents) = 2
        /\ run[j].termEndDate = D20241210
        /\ MergeFiles(Permuted(trace[j].files, <<2, 1>>), 2).termEndDate = D20240902

(***************************************************************************)
(* Properties of the confirm handler's replies.                            *)
(***************************************************************************)
\* C21: a confirm request that got past formatting is answered 200; success
\* is true exactly when no insert was rejected and the submission did not
\* reject as a whole, and the reply then carries the number of fulfilled
\* inserts (0 when nothing was formatted); otherwise it carries the whole
\* result, with that number and one entry per rejected insert, or the one
\* entry 'Overall Process Failure' when createCalendarEvents rejected; the
\* 500 'Internal Server Error' reply is never sent.
C21_ConfirmReply ==
    /\ confirm.reply.error # S("Internal Server Error")
    /\ (Answered /\ PastFormatting) =>
          LET r == confirm.reply
              failed == Rejected # {} \/ submit.pc = "rejected"
          IN /\ r.status = 200
             /\ r.success <=> ~failed
             /\ r.success <=> (confirm.creationResult.errors = <<>>)
             /\ r.success =>
                   /\ r.created = <<ToString(Cardinality(Fulfilled))>>
                   /\ ~r.hasResult
                   /\ confirm.googleEvents = <<>> => r.created = <<"0">>
             /\ ~r.success =>
                   /\ r.hasResult
                   /\ r.created = Undef
                   /\ r.result = confirm.creationResult
                   /\ r.result.successCount = Cardinality(Fulfilled)
                   /\ submit.pc = "resolved" =>
                         /\ r.result = submit.result
                         /\ Len(r.result.errors) = Cardinality(Rejected)
                   /\ submit.pc = "rejected" =>
                         /\ Len(r.result.errors) = 1
                         /\ r.result.errors[1].eventSummary = S("Overall Process Failure")
                         /\ r.result.errors[1].error = submit.threw

\* a request answered after some inserts were fulfilled and some rejected
C21_Witness ==
    /\ Answered
    /\ PastFormatting
    /\ submit.pc = "resolved"
    /\ Fulfilled # {}
    /\ Rejected # {}
    /\ ~confirm.reply.success

\* a request answered after createCalendarEvents rejected as a whole
C21_WitnessOverallFailure ==
    /\ Answered
    /\ PastFormatting
    /\ submit.pc = "rejected"
    /\ confirm.reply.result.errors[1].eventSummary = S("Overall Process Failure")

\* the schedules the handler hands to the formatter, and the timezones a
\* caller of the formatter may pass
FormattedSchedules ==
    {validatedScheduleData(body) : body \in {b \in ConfirmBodies : createCalendarBodySchema(b)}}
CallerTimeZones == {UTC, XYZ, <<>>}

\* C22: a request whose formatter threw is answered by the catch block and
\* createCalendarEvents is not called; the catch block answers 400 'Bad
\* Request' to the error the formatter throws for a timezone the runtime
\* does not accept and 500 'Processing Error' to the errors it throws for
\* missing or invalid term dates.
C22_FormatErrorMapping ==
    /\ (Answered /\ confirm.formatterThrew # Undef) =>
          /\ confirm.submitterCalls = 0
          /\ submit = NoSubmit
          /\ confirm.reply = FormatErrorReply(confirm.formatterThrew)
          /\ confirm.reply.status \in {400, 500}
          /\ (~Truthy(confirm.body.termStartDate) \/ ~Truthy(confirm.body.termEndDate)
                \/ ~IsValidDate(confirm.body.termStartDate) \/ ~IsValidDate(confirm.body.termEndDate)) =>
                /\ confirm.reply.status = 500
                /\ confirm.reply.error = S("Processing Error")
    /\ \A sd \in FormattedSchedules, tz \in CallerTimeZones :
          LET threw == formatEventsForGoogle(sd, tz).threw
          IN threw # Undef =>
                /\ FormatErrorReply(threw).status = IF IsTimeZone(tz) THEN 500 ELSE 400
                /\ FormatErrorReply(threw).error =
                      IF IsTimeZone(tz) THEN S("Processing Error") ELSE S("Bad Request")

\* a request whose term start date is null: the formatter threw, the reply
\* is 500 and nothing was submitted
C22_Witness ==
    /\ Answered
    /\ createCalendarBodySchema(confirm.body)
    /\ confirm.formatterCalls = 1
    /\ confirm.formatterThrew # Undef
    /\ confirm.reply.status = 500
    /\ confirm.submitterCalls = 0

(***************************************************************************)
(* Properties of formatEventsForGoogle.                                    *)
(***************************************************************************)
\* the term dates of the calls that are missing or are no date
UnusableDates == {Null, BadDate, D20241345}
\* the timezones of the calls the runtime does not accept
UnknownTimeZones == {XYZ, <<>>}
TermDateErrors ==
    {S("Term start and end dates are required to create recurring events."),
     S("Invalid term start or end date format. Please use YYYY-MM-DD.")}
Called == fmt.pc # "idle"

\* C23: a call with a timezone the runtime does not accept throws the
\* invalid-timezone error, whatever the schedule; a call with an accepted
\* timezone and a missing or unparseable term date throws a term-date
\* error, which does not hold the text of the timezone error; neither
\* returns a descriptor; no other call throws.
C23_InvalidInputsRejected ==
    Called =>
        LET sd == fmt.scheduleData
            badZone == fmt.userTimeZone \in UnknownTimeZones
            badDate == sd.termStartDate \in UnusableDates \/ sd.termEndDate \in UnusableDates
        IN /\ badZone =>
                 /\ fmt.pc = "threw"
                 /\ Includes(fmt.threw, "Invalid user timezone")
                 /\ fmt.threw \notin TermDateErrors
           /\ (~badZone /\ badDate) =>
                 /\ fmt.pc = "threw"
                 /\ fmt.threw \in TermDateErrors
                 /\ ~Includes(fmt.threw, "Invalid user timezone")
                 /\ sd.termStartDate = Null \/ sd.termEndDate = Null =>
                       fmt.threw = S("Term start and end dates are required to create recurring events.")
           /\ fmt.pc = "threw" => (fmt.googleEvents = <<>> /\ fmt.index = 0 /\ (badZone \/ badDate))
           /\ (~badZone /\ ~badDate) => fmt.threw = Undef

\* a call whose timezone and term start date are both invalid: the
\* timezone error is the one thrown
C23_Witness ==
    /\ fmt.pc = "threw"
    /\ fmt.userTimeZone = XYZ
    /\ fmt.scheduleData.termStartDate = Null
    /\ Includes(fmt.threw, "Invalid user timezone")

\* C24: a call whose term dates are both well-formed and whose termEndDate
\* is earlier than its termStartDate throws a term-date error.
C24_EndBeforeStartRejected ==
    (/\ Called
     /\ fmt.userTimeZone = UTC
     /\ fmt.scheduleData.termStartDate \notin UnusableDates
     /\ fmt.scheduleData.termEndDate \notin UnusableDates
     /\ DateOf(fmt.scheduleData.termEndDate) < DateOf(fmt.scheduleData.termStartDate)) =>
        /\ fmt.pc \in {"threw"}
        /\ fmt.threw \in TermDateErrors

\* what the call does instead: it returns, with no descriptor
C24_EndBeforeStartReturnsNothing ==
    (/\ Called
     /\ fmt.userTimeZone = UTC
     /\ fmt.scheduleData.termStartDate \notin UnusableDates
     /\ fmt.scheduleData.termEndDate \notin UnusableDates
     /\ DateOf(fmt.scheduleData.termEndDate) < DateOf(fmt.scheduleData.termStartDate)) =>
        /\ fmt.threw = Undef
        /\ fmt.googleEvents = <<>>

C24_ReturnedNothing ==
    /\ fmt.pc = "returned"
    /\ fmt.scheduleData.termStartDate = D20241210
    /\ fmt.scheduleData.termEndDate = D20240902
    /\ fmt.index = 2
    /\ fmt.googleEvents = <<>>

\* the text of the day after a term end date of the calls, followed by
\* T000000Z
DayAfter(termEndDate) ==
    CASE termEndDate = D20241210 -> <<"2024", "12", "11", "T000000Z">>
      [] termEndDate = D20241130 -> <<"2024", "12", "01", "T000000Z">>
      [] termEndDate = D20241231 -> <<"2025", "01", "01", "T000000Z">>
      [] termEndDate = D20240902 -> <<"2024", "09", "03", "T000000Z">>

\* year, month and day of a date of the shape YYYY-MM-DD
PlainDate(d) == <<d[1] \o d[2] \o d[3] \o d[4], d[6] \o d[7], d[9] \o d[10]>>
\* such a date without its dashes, followed by T000000Z
Compact(d) == PlainDate(d) \o <<"T000000Z">>

\* the BYDAY of the descriptors of the events that have more than Monday
ByDayOf(summary) ==
    CASE summary = Summary(EvMATH200) -> <<"TU", "TH">>
      [] summary = Summary(EvWedMon) -> <<"WE", "MO">>
      [] OTHER -> <<"MO">>

\* every descriptor has one weekly rule over the event's recognised days
OneWeeklyRule ==
    \A k \in DOMAIN fmt.googleEvents :
        LET d == fmt.googleEvents[k]
        IN /\ Len(d.recurrence) = 1
           /\ d.recurrence[1].freq = "WEEKLY"
           /\ d.recurrence[1].byDay = ByDayOf(d.summary)
           /\ d.recurrence[1].until = fmt.rruleEndDateUTC

\* C25: every descriptor has exactly one recurrence rule, weekly over the
\* event's recognised days, whose UNTIL is the date of the day after
\* termEndDate followed by T000000Z, whatever the server's UTC offset.
C25_UntilIsDayAfterTermEnd ==
    /\ OneWeeklyRule
    /\ \A k \in DOMAIN fmt.googleEvents :
          fmt.googleEvents[k].recurrence[1].until = DayAfter(fmt.scheduleData.termEndDate)

\* what holds: the UNTIL is the day after termEndDate on a server whose
\* local time is not ahead of UTC, and termEndDate itself on one whose
\* local time is ahead
C25_UntilFollowsServerOffset ==
    /\ OneWeeklyRule
    /\ \A k \in DOMAIN fmt.googleEvents :
          fmt.googleEvents[k].recurrence[1].until =
              IF fmt.offset <= 0 THEN DayAfter(fmt.scheduleData.termEndDate)
              ELSE Compact(fmt.scheduleData.termEndDate)

\* a descriptor of a server two hours ahead of UTC for the term end
\* 2024-12-10: its UNTIL is 20241210T000000Z
C25_UntilIsTermEndItself ==
    /\ fmt.pc = "returned"
    /\ fmt.offset = 120
    /\ fmt.scheduleData.termEndDate = D20241210
    /\ Len(fmt.googleEvents) = 2
    /\ fmt.googleEvents[1].recurrence[1].until = <<"2024", "12", "10", "T000000Z">>

\* the weekday of a day number, Monday 0 to Sunday 6, counted from
\* 2024-09-02, a Monday
WeekdayOf(day) == (day - DateOf(D20240902)) % 7
\* the weekdays an event selects: those of its day names that are names of
\* weekdays
SelectedWeekdays(event) ==
    {n \in 0..6 : \E k \in DOMAIN event.days :
        event.days[k] = <<<<"Monday", "Tuesday", "Wednesday", "Thursday", "Friday",
                            "Saturday", "Sunday">>[n + 1]>>}
\* the minute of the day of the times of the calls; no minute for the rest
MinuteOf(time) ==
    CASE time = T1000AM -> 600
      [] time = T1100AM -> 660
      [] OTHER -> NaN
\* the first day on or after the first day of the term that an event selects
FirstSelectedDay(event, termStartDate) ==
    LET s == DateOf(termStartDate)
    IN CHOOSE d \in s..(s + 6) :
          /\ WeekdayOf(d) \in SelectedWeekdays(event)
          /\ \A e \in s..(d - 1) : WeekdayOf(e) \notin SelectedWeekdays(event)
\* the events the formatter has a descriptor for: days that select a
\* weekday, times that parse, start before end, and a first occurrence
\* that is not after the term's last day
Formattable(event, termStartDate, termEndDate) ==
    /\ SelectedWeekdays(event) # {}
    /\ MinuteOf(event.startTime) # NaN
    /\ MinuteOf(event.endTime) # NaN
    /\ MinuteOf(event.startTime) < MinuteOf(event.endTime)
    /\ FirstSelectedDay(event, termStartDate) <= DateOf(termEndDate)
\* the events of the call visited so far, and those of them with a descriptor
Visited == SubSeq(fmt.scheduleData.scheduleEvents, 1, fmt.index)
Kept ==
    SelectSeq(Visited, LAMBDA e : Formattable(e, fmt.scheduleData.termStartDate,
                                              fmt.scheduleData.termEndDate))

\* C26: the start of every descriptor is on the earliest day, from the
\* first day of the term to six days later, whose weekday the event
\* selects (the first day of the term when its weekday is selected), at
\* the event's start time; its end is on the same day at the event's end
\* time; both are tagged with the timezone of the call and printed with
\* that zone's offset.
C26_FirstOccurrence ==
    fmt.pc \in {"looping", "returned"} =>
      LET kept == Kept
      IN
        /\ Len(fmt.googleEvents) = Len(kept)
        /\ \A k \in DOMAIN fmt.googleEvents :
              LET d == fmt.googleEvents[k]
                  e == kept[k]
                  first == FirstSelectedDay(e, fmt.scheduleData.termStartDate)
              IN /\ first - DateOf(fmt.scheduleData.termStartDate) \in 0..6
                 /\ WeekdayOf(DateOf(fmt.scheduleData.termStartDate)) \in SelectedWeekdays(e) =>
                       d.start.dateTime.date = PlainDate(fmt.scheduleData.termStartDate)
                 /\ d.start.dateTime.date = DateText(first)
                 /\ d.end.dateTime.date = DateText(first)
                 /\ d.start.dateTime.minutes = MinuteOf(e.startTime)
                 /\ d.end.dateTime.minutes = MinuteOf(e.endTime)
                 /\ d.start.timeZone = fmt.userTimeZone
                 /\ d.end.timeZone = fmt.userTimeZone
                 /\ d.start.dateTime.offsetOf = fmt.userTimeZone
                 /\ d.end.dateTime.offsetOf = fmt.userTimeZone

\* a term that starts on Thursday 2024-09-05 and an event on Wednesday and
\* Monday: its first occurrence is Monday 2024-09-09, at 10:00
C26_Witness ==
    /\ fmt.pc = "returned"
    /\ fmt.scheduleData.termStartDate = D20240905
    /\ fmt.scheduleData.scheduleEvents = <<EvWedMon>>
    /\ Len(fmt.googleEvents) = 1
    /\ fmt.googleEvents[1].start.dateTime.date = <<"2024", "09", "09">>
    /\ fmt.googleEvents[1].start.dateTime.minutes = 600

\* C27: an event with no days, no recognised weekday, a missing or
\* unparseable time or a start that is not before its end is skipped and
\* the call does not throw; the loop visits every event, and the
\* descriptors are those of the events not skipped, in their order.
C27_SkipsWithoutThrowing ==
    /\ fmt.pc \in {"looping", "returned"} =>
          LET kept == Kept
          IN /\ fmt.threw = Undef
             /\ Len(fmt.googleEvents) = Len(kept)
             /\ \A k \in DOMAIN fmt.googleEvents : fmt.googleEvents[k].summary = Summary(kept[k])
             /\ \A k \in DOMAIN kept :
                   kept[k] \notin {EvNoDays, EvFunday, EvBadTime, EvLate, EvNoTime}
    /\ fmt.pc = "returned" => fmt.index = Len(fmt.scheduleData.scheduleEvents)
    /\ (Called /\ fmt.userTimeZone = UTC
          /\ fmt.scheduleData.termStartDate \notin UnusableDates
          /\ fmt.scheduleData.termEndDate \notin UnusableDates) => fmt.pc \in {"looping", "returned"}

\* a call with a skipped event between two formatted ones: it returned
\* the descriptors of the first and the third
C27_Witness ==
    /\ fmt.pc = "returned"
    /\ fmt.scheduleData.scheduleEvents = <<EvMATH200, EvLate, EvNoCode>>
    /\ Len(fmt.googleEvents) = 2
    /\ fmt.googleEvents[1].summary = Summary(EvMATH200)
    /\ fmt.googleEvents[2].summary = Summary(EvNoCode)

\* the non-empty course codes of a list of events, each once, in the
\* order in which they first appear
RECURSIVE NewCodes(_)
NewCodes(events) ==
    IF events = <<>> THEN <<>>
    ELSE LET before == NewCodes(SubSeq(events, 1, Len(events) - 1))
             code == events[Len(events)].courseCode
         IN IF code = <<>> \/ \E k \in DOMAIN before : before[k] = code
            THEN before ELSE Append(before, code)
PositionIn(codes, code) == CHOOSE k \in DOMAIN codes : codes[k] = code
PaletteSize == Len(GOOGLE_COLOR_IDS)

\* C28: in one call events of the same course code get the same colour and
\* an event without a code gets none; the first 11 course codes to be
\* coloured get 11 different colours of the palette; the k-th code after
\* them (k from 0) gets palette entry k mod 11, whatever was drawn; only
\* events that are not skipped take a colour; every call starts with an
\* empty colour map and the whole palette.
C28_Colours ==
    /\ fmt.pc \in {"looping", "returned"} =>
          LET kept == Kept
              codes == NewCodes(kept)
          IN /\ Len(fmt.googleEvents) = Len(kept)
             /\ \A k \in DOMAIN fmt.googleEvents :
                   LET d == fmt.googleEvents[k]
                       code == kept[k].courseCode
                   IN IF code = <<>> THEN d.colorId = Undef
                      ELSE LET p == PositionIn(codes, code)
                           IN /\ d.colorId # Undef
                              /\ \E c \in DOMAIN GOOGLE_COLOR_IDS : d.colorId = <<GOOGLE_COLOR_IDS[c]>>
                              /\ p > PaletteSize =>
                                    d.colorId = <<GOOGLE_COLOR_IDS[((p - PaletteSize - 1) % PaletteSize) + 1]>>
                              /\ \A m \in DOMAIN fmt.googleEvents :
                                    LET other == kept[m].courseCode
                                    IN /\ other = code => fmt.googleEvents[m].colorId = d.colorId
                                       /\ (/\ other # <<>>
                                           /\ other # code
                                           /\ p <= PaletteSize
                                           /\ PositionIn(codes, other) <= PaletteSize) =>
                                             fmt.googleEvents[m].colorId # d.colorId
             /\ [k \in DOMAIN fmt.courseColorMap |-> fmt.courseColorMap[k].code] = codes
             /\ Len(fmt.availableColors) =
                   IF Len(codes) >= PaletteSize THEN 0 ELSE PaletteSize - Len(codes)
             /\ fmt.fallbackColorIndex =
                   IF Len(codes) >= PaletteSize THEN Len(codes) - PaletteSize ELSE 0
    /\ (fmt.pc = "looping" /\ fmt.index = 0) =>
          /\ fmt.courseColorMap = <<>>
          /\ fmt.availableColors = GOOGLE_COLOR_IDS
          /\ fmt.fallbackColorIndex = 0

\* the long schedule was formatted: the palette ran out, the codes after
\* the eleventh took the palette in its order, past its end and from its
\* start again, and the skipped event took no colour
C28_Witness ==
    /\ fmt.pc = "returned"
    /\ fmt.scheduleData.scheduleEvents = LongSchedule
    /\ Len(fmt.googleEvents) = MaxCourses + 2
    /\ fmt.fallbackColorIndex = MaxCourses - PaletteSize
    /\ fmt.fallbackColorIndex > PaletteSize
    /\ fmt.googleEvents[PaletteSize + 1].colorId = <<"1">>
    /\ fmt.googleEvents[2 * PaletteSize + 1].colorId = <<"1">>
    /\ fmt.googleEvents[1].colorId = <<"11">>
    /\ fmt.googleEvents[MaxCourses + 1].colorId = <<"11">>
    /\ ~MapHas(fmt.courseColorMap, EvLate.courseCode)

(***************************************************************************)
(* Properties of the events of a stored preview.                           *)
(***************************************************************************)
\* the events of the previews in the store
StoredEvents ==
    UNION {{store[s].value.doc.scheduleData.scheduleEvents[k] :
               k \in DOMAIN store[s].value.doc.scheduleData.scheduleEvents} :
           s \in {t \in Sessions : store[t].present /\ store[t].value.json}}

\* C31: every event of a stored preview has a courseCode string, at least
\* one day and start and end times of the time pattern, and its start time
\* is before its end time whenever both parse.
C31_StoredEventsValid ==
    \A e \in StoredEvents :
        /\ IsStr(e.courseCode)
        /\ Len(e.days) >= 1
        /\ IsStr(e.startTime) /\ TimeRe(e.startTime)
        /\ IsStr(e.endTime) /\ TimeRe(e.endTime)
        /\ (parseTimeToMinutes(e.startTime) # NaN /\ parseTimeToMinutes(e.endTime) # NaN) =>
              parseTimeToMinutes(e.startTime) < parseTimeToMinutes(e.endTime)

\* what holds: every stored event passes scheduleEventSchema, which does
\* not compare the two times; the candidates that fail it were dropped and
\* their file still counts as processed
C31_StoredEventsPassSchema ==
    /\ \A e \in StoredEvents : scheduleEventSchema(e)
    /\ \A j \in JobIds :
          (LoopOver(j) /\ Len(trace[j].files) >= 1 /\ trace[j].files[1].ret = RetA
                /\ trace[j].files[1].kind = "usable") =>
              /\ run[j].filesProcessedSuccessfully >= 1
              /\ \A k \in DOMAIN run[j].allScheduleEvents : run[j].allScheduleEvents[k] # EvNoDays

\* a stored preview with an event from 11:00 AM to 10:00 AM
C31_StoredEventEndsBeforeStart ==
    \E s \in Sessions :
        /\ store[s].present
        /\ store[s].value.json
        /\ \E e \in StoredEvents :
              /\ parseTimeToMinutes(e.startTime) = 660
              /\ parseTimeToMinutes(e.endTime) = 600

(***************************************************************************)
(* Properties of the retries of a job.                                     *)
(***************************************************************************)
\* none of the job's temp files exists any more
FilesGone(j) ==
    /\ jobState[j] # "none"
    /\ \A i \in DOMAIN jobData[j].tempFilePaths : jobData[j].tempFilePaths[i] \notin fs
\* an attempt of the job has failed, a retry is due, and its files are gone
FailedAfterCleanup(j) == jobState[j] = "delayed" /\ FilesGone(j)
\* a retry reads no file, issues no store write and does not complete
RetryInVain(j) ==
    /\ jobState[j] # "completed"
    /\ jobState[j] = "active" =>
          /\ run[j].pc # "set"
          /\ trace[j].sets = 0
          /\ \A k \in DOMAIN trace[j].files : trace[j].files[k].kind = "threw"
          /\ \A p \in DOMAIN trace[j].ops : trace[j].ops[p][1] # "extract"
          /\ run[j].allScheduleEvents = <<>>

\* C34: once an attempt has failed and the job's temp files are unlinked,
\* no retry reads a file, issues a store write or completes, and the job
\* ends failed for good; a successful store write completes the job, and a
\* completed job never runs again, so a job writes the store at most once.
C34_RetryCannotRecover ==
    /\ \A j \in JobIds : [](FailedAfterCleanup(j) => []RetryInVain(j))
    /\ \A j \in JobIds : FailedAfterCleanup(j) ~> (jobState[j] = "failed")
    /\ [][\A j \in JobIds :
            /\ (store' # store /\ run[j].pc = "set" /\ run'[j].pc = "done") =>
                  jobState'[j] = "completed"
            /\ jobState[j] = "completed" =>
                  (jobState'[j] = "completed" /\ trace'[j] = trace[j] /\ run'[j] = run[j])]_vars

\* a job whose store write was rejected after its file was unlinked: the
\* retry is due
C34_FailedAfterCleanup ==
    \E j \in JobIds : FailedAfterCleanup(j) /\ trace[j].setFailed /\ attemptsMade[j] = 1

\* the last attempt of a job whose files were gone: every read failed, the
\* job is failed for good and there is no preview
C34_Witness ==
    \E j \in JobIds :
        /\ jobState[j] = "failed"
        /\ attemptsMade[j] = JOB_DEFAULT_ATTEMPTS
        /\ FilesGone(j)
        /\ Len(trace[j].files) = Len(jobData[j].tempFilePaths)
        /\ \A k \in DOMAIN trace[j].files : trace[j].files[k].kind = "threw"
        /\ \A p \in DOMAIN trace[j].ops : trace[j].ops[p][1] # "extract"
        /\ ~trace[j].setFailed
        /\ ~store[jobData[j].sessionId].present

(***************************************************************************)
(* Properties of the diagnostics of a preview.                             *)
(***************************************************************************)
\* file k of the call returned a usable events array and, for the field, a
\* string that is not of the shape YYYY-MM-DD
MalformedIn(j, k, field) ==
    /\ trace[j].files[k].kind = "usable"
    /\ IsStr(trace[j].files[k].ret[field])
    /\ trace[j].files[k].ret[field] # <<>>
    /\ ~DateRe(trace[j].files[k].ret[field])
\* the call's warnings hold one that names file k, the field and the value
WarnedOf(j, k, field) ==
    \E w \in DOMAIN run[j].processingWarnings :
        LET warning == run[j].processingWarnings[w]
        IN /\ warning.filename = jobData[j].originalFilenames[k]
           /\ warning.field = S(field)
           /\ warning.value = trace[j].files[k].ret[field]

\* the warnings of the call that name the filename of file k, the field
\* and the value file k returned for it
WarningsOf(j, k, field) ==
    {w \in DOMAIN run[j].processingWarnings :
        LET warning == run[j].processingWarnings[w]
        IN /\ warning.filename = jobData[j].originalFilenames[k]
           /\ warning.field = S(field)
           /\ warning.value = trace[j].files[k].ret[field]}
\* the files of that filename that returned that malformed value when no
\* earlier file of the call had set the field
MetUnset(j, k, field) ==
    {m \in DOMAIN trace[j].files :
        /\ MalformedIn(j, m, field)
        /\ jobData[j].originalFilenames[m] = jobData[j].originalFilenames[k]
        /\ trace[j].files[m].ret[field] = trace[j].files[k].ret[field]
        /\ FirstWellFormed(SubSeq(trace[j].files, 1, m - 1), field) = Null}

\* C37: when the loop of a call is over, every malformed term-date string
\* of a file with a usable events array has a warning that names the file,
\* the field and the value, whatever the position of the file; and the
\* preview handed to the store holds every warning and error recorded.
C37_MalformedDatesWarned ==
    \A j \in JobIds :
        LoopOver(j) =>
            /\ \A k \in DOMAIN trace[j].files, field \in {StartOf, EndOf} :
                  MalformedIn(j, k, field) => WarnedOf(j, k, field)
            /\ run[j].pc \in {"set"} =>
                  /\ run[j].payload.doc.processingWarnings = run[j].processingWarnings
                  /\ run[j].payload.doc.processingErrors = run[j].fileProcessingErrors

\* what holds: a malformed string is warned of, once, exactly when no
\* earlier file of the call has set the field (files of one filename and
\* value counted together), and nothing recorded is dropped
C37_WarnedWhileFieldUnset ==
    \A j \in JobIds :
        LoopOver(j) =>
            /\ \A k \in DOMAIN trace[j].files, field \in {StartOf, EndOf} :
                  MalformedIn(j, k, field) =>
                      Cardinality(WarningsOf(j, k, field)) = Cardinality(MetUnset(j, k, field))
            /\ run[j].pc \in {"set"} =>
                  /\ run[j].payload.doc.processingWarnings = run[j].processingWarnings
                  /\ run[j].payload.doc.processingErrors = run[j].fileProcessingErrors

\* the second file of a job returned a malformed start date after the
\* first had set the field: the preview is stored without a warning
C37_MalformedDateNotWarned ==
    \E j \in JobIds :
        /\ jobState[j] = "completed"
        /\ Len(trace[j].files) = 2
        /\ trace[j].files[1].ret = RetA
        /\ trace[j].files[2].ret = RetB
        /\ store[jobData[j].sessionId].present
        /\ store[jobData[j].sessionId].value.doc.processingWarnings = <<>>
        /\ Len(MergeFiles(Permuted(trace[j].files, <<2, 1>>), 2).processingWarnings) = 1

(***************************************************************************)
(* The first occurrence and the term.                                      *)
(***************************************************************************)
\* the event the loop visits next has days that select a weekday and times
\* that parse, start before end, and its first selected day on or after
\* the first day of the term is after the term's last day
NextIsAfterTermEnd ==
    /\ fmt.pc = "looping"
    /\ fmt.index < Len(fmt.scheduleData.scheduleEvents)
    /\ LET e == fmt.scheduleData.scheduleEvents[fmt.index + 1]
       IN /\ SelectedWeekdays(e) # {}
          /\ MinuteOf(e.startTime) # NaN
          /\ MinuteOf(e.endTime) # NaN
          /\ MinuteOf(e.startTime) < MinuteOf(e.endTime)
          /\ FirstSelectedDay(e, fmt.scheduleData.termStartDate) > DateOf(fmt.scheduleData.termEndDate)

\* C36: the start and the end of every descriptor are on one date that
\* lies from termStartDate to termEndDate, both included, and the start is
\* at an earlier minute of that date than the end; a visit of an event
\* whose first occurrence falls after termEndDate adds no descriptor.
C36_FirstOccurrenceWithinTerm ==
    /\ [](fmt.pc \in {"looping", "returned"} =>
            \A k \in DOMAIN fmt.googleEvents :
                LET d == fmt.googleEvents[k]
                IN /\ \E day \in DateOf(fmt.scheduleData.termStartDate)
                                   ..DateOf(fmt.scheduleData.termEndDate) :
                          /\ d.start.dateTime.date = DateText(day)
                          /\ d.end.dateTime.date = DateText(day)
                   /\ d.start.dateTime.minutes < d.end.dateTime.minutes
                   /\ d.start.dateTime.minutes \in 0..1439
                   /\ d.end.dateTime.minutes \in 0..1439)
    /\ [][(NextIsAfterTermEnd /\ fmt'.index = fmt.index + 1)
             => fmt'.googleEvents = fmt.googleEvents]_vars

\* a term of the single day Monday 2024-09-02 with an event on Monday and
\* one on Tuesday and Thursday: the call returns the descriptor of the
\* first, on the term's last day, and none for the second
C36_Witness ==
    /\ fmt.pc = "returned"
    /\ fmt.scheduleData.termStartDate = D20240902
    /\ fmt.scheduleData.termEndDate = D20240902
    /\ fmt.scheduleData.scheduleEvents = <<StripEvent(EvCS101), EvMATH200>>
    /\ Len(fmt.googleEvents) = 1
    /\ fmt.googleEvents[1].summary = Summary(EvCS101)
    /\ fmt.googleEvents[1].start.dateTime.date = <<"2024", "09", "02">>

(***************************************************************************)
(* The cleanup of a confirm request and a preview written meanwhile.       *)
(***************************************************************************)
\* C35: the delete a confirm request issues is not awaited (the request is
\* answered while the delete is on its way), and when it reaches the store
\* it removes whatever is under the session's key then, also the preview of
\* a job that was uploaded after the request began; nothing else removes
\* a preview here, and no GET is made.
C35_CleanupDeletesWhateverIsStored ==
    /\ [](confirm.del = "pending" => confirm.pc = "replied")
    /\ [][(confirm.del = "pending" /\ confirm'.del = "done")
             => /\ ~store'[confirm.session].present
                /\ \A s \in Sessions \ {confirm.session} : store'[s] = store[s]
                /\ jobState' = jobState]_vars
    /\ [][\A s \in Sessions :
             (store[s].present /\ ~store'[s].present)
                => (s = confirm.session /\ confirm.del = "pending" /\ confirm'.del = "done")]_vars
    /\ [](\A s \in Sessions : getPc[s] = "idle")

\* the job of the upload made during the request has completed and wrote
\* the session's preview, the request's delete has reached the store, and
\* no preview is stored: it was removed without having been read
C35_Witness ==
    /\ jobState["j2"] = "completed"
    /\ lastWriter["A"] = "j2"
    /\ trace["j2"].sets = 1
    /\ confirm.session = "A"
    /\ confirm.reply.status = 200
    /\ confirm.del = "done"
    /\ ~store["A"].present

(***************************************************************************)
(* Sessions do not share previews.                                         *)
(***************************************************************************)
\* the step is one of session s: of a job it uploaded, of a preview route
\* it called, or of its confirm request
StepOf(s) ==
    \/ \E j \in JobIds :
          /\ jobData'[j].sessionId = s
          /\ <<jobState[j], run[j], trace[j]>>' # <<jobState[j], run[j], trace[j]>>
    \/ getPc'[s] # getPc[s]
    \/ resp' # NoResp /\ resp'.session = s
    \/ confirm'.session = s /\ <<confirm, submit>>' # <<confirm, submit>>

\* C33: distinct sessions have distinct keys; a step of a job, a GET, a
\* cancel or a confirm request of one session leaves the entry of every
\* other session as it is; an entry changes only in a step of its session;
\* and what a GET of a session answers is what that session's entry holds.
C33_SessionsPartitioned ==
    /\ [](\A s, t \in Sessions : RedisKey(s) = RedisKey(t) => s = t)
    /\ [][\A s \in Sessions :
             StepOf(s) => \A t \in Sessions \ {s} : store'[t] = store[t]]_vars
    /\ [][\A t \in Sessions : store'[t] # store[t] => StepOf(t)]_vars
    /\ [][(resp' # NoResp /\ resp'.op = "GET" /\ resp'.session \in Sessions /\ ~resp'.readFailed)
             => LET entry == store[resp'.session]
                IN /\ resp'.status = 200 <=> entry.present
                   /\ resp'.status = 404 <=> ~entry.present
                   /\ entry.present =>
                         resp'.previewResult = ParsedPreviewResult(entry.value.doc)]_vars

\* session A's job wrote its preview, session A's confirm request deleted
\* it, and the entry of session B is the one B's job wrote
C33_Witness ==
    /\ jobState["j1"] = "completed"
    /\ jobState["j2"] = "completed"
    /\ lastWriter["A"] = "j1"
    /\ confirm.session = "A"
    /\ confirm.del = "done"
    /\ ~store["A"].present
    /\ store["B"].present
    /\ store["B"].value = run["j2"].payload
    /\ store["B"].value # run["j1"].payload

(***************************************************************************)
(* Properties of the upload handler.                                       *)
(***************************************************************************)
\* the jobs the queue accepted from request number n
JobsOf(n) == {k \in DOMAIN up.added : up.added[k].req = n}
\* the fileInfos of the request whose save was fulfilled
Saved == {i \in DOMAIN up.fileInfos : up.fileInfos[i].save = "fulfilled"}
\* the jobs that list a path
JobsListing(path) ==
    {k \in DOMAIN up.added :
        \E i \in DOMAIN up.added[k].data.tempFilePaths : up.added[k].data.tempFilePaths[i] = path}

\* C32: no request adds more than one job; a request that has ended was
\* answered 200 exactly when it added a job, and one that has not ended has
\* added none; the three lists of a job have one length, at least 1, and
\* entry k of each is of the k-th file of the request whose save succeeded
\* (the content type application/octet-stream where the part had none),
\* no such file left out.
C32_OneJobPerAcceptedUpload ==
    /\ \A n \in 1..MaxRequests : Cardinality(JobsOf(n)) <= 1
    /\ up.addCalls <= 1
    /\ up.pc # "done" => JobsOf(up.req) = {}
    /\ up.pc = "done" =>
          /\ up.status \in {200, 400, 401, 413, 500}
          /\ up.status = 200 <=> JobsOf(up.req) # {}
    /\ \A k \in DOMAIN up.added :
          LET d == up.added[k].data
          IN /\ Len(d.tempFilePaths) >= 1
             /\ Len(d.mimeTypes) = Len(d.tempFilePaths)
             /\ Len(d.originalFilenames) = Len(d.tempFilePaths)
             /\ \A a, b \in DOMAIN d.tempFilePaths : d.tempFilePaths[a] = d.tempFilePaths[b] => a = b
    /\ (up.pc = "done" /\ up.status = 200) =>
          LET d == up.added[CHOOSE k \in JobsOf(up.req) : TRUE].data
          IN /\ Len(d.tempFilePaths) = Cardinality(Saved)
             /\ \E f \in [DOMAIN d.tempFilePaths -> Saved] :
                   /\ \A a, b \in DOMAIN f : a < b => f[a] < f[b]
                   /\ \A a \in DOMAIN f :
                         /\ d.tempFilePaths[a] = up.fileInfos[f[a]].tempFilePath
                         /\ d.originalFilenames[a] = up.fileInfos[f[a]].originalFilename
                         /\ d.mimeTypes[a] = (IF up.fileInfos[f[a]].mimeType = ""
                                              THEN "application/octet-stream"
                                              ELSE up.fileInfos[f[a]].mimeType)
                         /\ d.tempFilePaths[a] \in fs

\* a request of two files, the save of the first rejected: answered 200,
\* its job lists the second file only, with the default content type
C32_Witness ==
    /\ up.pc = "done"
    /\ up.status = 200
    /\ up.parts = <<FileA, FieldPart, FileB>>
    /\ up.fileInfos[1].save = "rejected"
    /\ Len(up.added) = 1
    /\ up.added[1].data.originalFilenames = <<"b.jpg">>
    /\ up.added[1].data.mimeTypes = <<"application/octet-stream">>

\* requests that ended without a job: over the limit of files, and with
\* every save rejected
C32_WitnessRefused ==
    /\ up.pc = "done"
    /\ up.req = 2
    /\ up.added = <<>>
    /\ up.status = 500
    /\ up.threw = "Could not save any uploaded files locally."

\* C38: once a request has ended and its saves have settled, every temp
\* file it wrote is listed in exactly one job and unlink was not called
\* for it, or is listed in no job and unlink was called for it.
C38_NoFileLeftBehind ==
    (up.pc = "done" /\ SavesSettled(up)) =>
        \A i \in DOMAIN up.fileInfos :
            LET path == up.fileInfos[i].tempFilePath
            IN \/ Cardinality(JobsListing(path)) = 1 /\ path \notin up.unlinkCalls
               \/ JobsListing(path) = {} /\ path \in up.unlinkCalls

\* what holds: the same of every request that did not end with an error
\* of the multipart iterator; and no file is listed in two jobs
C38_NoFileLeftBehindUnlessLimitError ==
    /\ (up.pc = "done" /\ SavesSettled(up)
          /\ up.threw \notin {"FST_FILES_LIMIT", "FST_REQ_FILE_TOO_LARGE"}) =>
          \A i \in DOMAIN up.fileInfos :
              LET path == up.fileInfos[i].tempFilePath
              IN \/ Cardinality(JobsListing(path)) = 1 /\ path \notin up.unlinkCalls
                 \/ JobsListing(path) = {} /\ path \in up.unlinkCalls
    /\ \A path \in fs : Cardinality(JobsListing(path)) <= 1

\* a request of one file more than MAX_FILE_COUNT has ended with the
\* iterator's error: the files saved before are on disk, in no job, and
\* unlink was called for none
C38_FilesLeftBehind ==
    /\ up.pc = "done"
    /\ up.threw = "FST_FILES_LIMIT"
    /\ up.status = 413
    /\ Len(up.fileInfos) = MaxFileCount
    /\ SavesSettled(up)
    /\ \A i \in DOMAIN up.fileInfos : up.fileInfos[i].tempFilePath \in fs
    /\ up.added = <<>>
    /\ up.unlinkCalls = {}

(***************************************************************************)
(* Properties of the polling of the preview page.                          *)
(***************************************************************************)
\* what the page shows: the spinner, the error alert, or the schedule
\* (lines 349, 357 and 412)
ShowsLoading == page.pc = "mounted" /\ page.isLoading
ShowsError == page.pc = "mounted" /\ ~page.isLoading /\ page.fetchError # ""
ShowsReady ==
    page.pc = "mounted" /\ ~page.isLoading /\ page.fetchError = "" /\ page.hasScheduleData

\* the step handles a response
HandlesResponse == page'.handled = page.handled + 1

\* polling as the page does it: a call of fetchPreviewData at the mount
\* and every POLLING_INTERVAL_MS while the interval timer is set; a 404
\* leaves timers and state alone; every other response clears both timers;
\* after POLLING_TIMEOUT_MS the timers are cleared and the page is not
\* loading; no call is started once the timers are cleared; a page that has
\* left the loading state does not return to it; and the page leaves the
\* loading state
PollingStops ==
    /\ [][(page.pc = "mounted" /\ page'.now # page.now /\ page'.now < POLLING_TIMEOUT_MS)
             => page'.polls = page.polls + (IF page.interval THEN 1 ELSE 0)]_vars
    /\ [][(HandlesResponse /\ page'.last = "notFound")
             => /\ page'.interval = page.interval
                /\ page'.timeout = page.timeout
                /\ page'.isLoading = page.isLoading
                /\ page'.polls = page.polls]_vars
    /\ [][(HandlesResponse /\ page'.last # "notFound")
             => (~page'.interval /\ ~page'.timeout /\ ~page'.isLoading)]_vars
    /\ [](page.now >= POLLING_TIMEOUT_MS => (~page.interval /\ ~page.timeout /\ ~page.isLoading))
    /\ [](page.interval <=> page.timeout)
    /\ [][(page.pc = "mounted" /\ ~page.interval) => page'.polls = page.polls]_vars
    /\ [][(page.pc = "mounted" /\ ~page.isLoading) => ~page'.isLoading]_vars
    /\ (page.pc = "mounted") ~> ~page.isLoading

\* C39: the page polls every 1.5 s, keeps polling on 404, stops on the
\* first other response or after 30 s and so leaves the loading state; it
\* starts no poll after it stopped; and once it shows the schedule or an
\* error, a response to a poll still in flight does not make it show the
\* other.
C39_PollingAsStated ==
    /\ PollingStops
    /\ [][(ShowsReady => ~ShowsError') /\ (ShowsError => ~ShowsReady')]_vars

\* what holds: all of it but the last part
C39_PollingStops == PollingStops

\* the page showed the schedule, and the response to an earlier poll, a
\* 500, made it show an error
C39_ReadyFlippedToError ==
    /\ ShowsError
    /\ page.hasScheduleData
    /\ page.last = "serverError"
    /\ ~page.timedOut

\* the timeout made the page show its error, and the 200 of a poll that
\* was in flight made it show the schedule
C39_ErrorFlippedToReady ==
    /\ ShowsReady
    /\ page.timedOut
    /\ page.last = "ok"
    /\ page.now = POLLING_TIMEOUT_MS

====
